---- MODULE Spec2Model ----
(***************************************************************************)
(* Fleet orchestration core of the SpaceTraders agent.                     *)
(*                                                                         *)
(* The two control tables of the state store ('control.SHIP_LOCKS' and     *)
(* 'control.SHIP_REQUESTS') are modelled as sequences of rows in rowid     *)
(* order.  The functions of fleet_resource_manager.py and the io.py        *)
(* primitives they call are operators over table values; every operator    *)
(* returns a record holding the return value of the call (ret) and the     *)
(* tables after it.  The store is assumed to work (no busy/locked errors), *)
(* so a write that reaches the store succeeds.                             *)
(***************************************************************************)
EXTENDS Integers, Sequences, FiniteSets, TLC

VARIABLES
    locks,      \* rows of 'control.SHIP_LOCKS'
    requests,   \* rows of 'control.SHIP_REQUESTS', in insertion order
    now,        \* int(time.time()) / unixepoch('now'), in seconds
    last,       \* the last call made on the fleet resource manager and its result
    tasks,      \* the asyncio tasks spawned by the controllers, in creation order
    cargo,      \* 'ship.CARGO': units held by each ship of the extraction fleet
    marked_drones,  \* haul_yields_in_system: drones a dispatched hauler is sent to
    stopped,    \* controllers whose coroutine has ended
    trader,     \* trade_in_system: its position, its locals, and 'ship.NAV' of its haulers
    nav_rows,   \* rows of 'ship.NAV', the cache of the navigation of the ships
    cargo_rows, \* rows of 'ship.CARGO', the cache of the holds, in rowid order
    remote      \* what the remote API holds: navigation and cargo of the ships

vars == <<locks, requests, now, last, tasks, cargo, marked_drones, stopped, trader,
          nav_rows, cargo_rows, remote>>

\* The caches of F_nav.py and F_trade.py and the remote state behind them.
cache == <<nav_rows, cargo_rows, remote>>

\* The state of the controllers of controllers/system_miners.py and
\* controllers/system_traders.py.
ctl == <<tasks, cargo, marked_drones, stopped, trader, nav_rows, cargo_rows, remote>>

-----------------------------------------------------------------------------
(* Bounds and inputs *)

Ships == {"S1", "S2"}
Controllers == {"A", "B", "C"}
\* Every controller calls with the priority its module fixes for it
\* (BASE_PRIO_MGR_PROBES, BASE_PRIO_TRADERS, ...): two equal ones and a higher one.
PriorityOf == [c \in Controllers |-> IF c = "C" THEN 300 ELSE 100]

\* Largest number of rows the request table is let to grow to.
MaxQueue == 2
\* Last clock value explored.
MaxNow == 41
\* Clock advances between two calls: an entry written at 0 is read at age 40 and 41.
TickSteps == {40, 41}

NULL == "NULL"

\* The ships of the extraction site: a mining drone at the engineered asteroid,
\* a siphon drone at the gas giant, and a hauler.
ExtractionFleet == {"E1", "E2", "E3", "H1"}

\* The haulers of the system the trade controller works in.
TradeFleet == {"T1", "T2"}
\* The probes of the market intel controller, both in system X1.
Probes == {"P1", "P2"}

\* The remote API before any ship has acted: no ship is known to the model.
remote_start == [nav |-> <<>>, cargo |-> <<>>]

\* trade_in_system before its first pass: it sleeps (pc), the list of trades of
\* the pass and its index t_ix are not set, the ledger ongoing_trades is empty;
\* nav is 'ship.NAV'.waypointSymbol of the haulers, docked at two markets: the
\* hauler with the larger hold at the source of the trade that takes two traders.
trader_start ==
    [pc |-> "sleep", trades |-> <<>>, t_ix |-> 0, ongoing_trades |-> {},
     nav |-> [s \in TradeFleet |-> IF s = "T1" THEN "C1" ELSE "A1"]]

-----------------------------------------------------------------------------
(* io.py *)

\* DELETE FROM table WHERE <key columns match row>
DeleteLockKey(T, row) == SelectSeq(T, LAMBDA r : r.shipSymbol # row.shipSymbol)

\* write_rows in mode "append": the rows of the key are kept.
write_lock_row_append(T, row) == Append(T, row)

\* write_rows(mode="update", key=["shipSymbol"]): drop the rows of the key, insert the row
write_lock_row(T, row) == Append(DeleteLockKey(T, row), row)

DeleteRequestKey(T, row) ==
    SelectSeq(T, LAMBDA r : ~(r.ship = row.ship /\ r.controller = row.controller))

\* write_rows(mode="update", key=["ship", "controller"])
write_request_row(T, row) == Append(DeleteRequestKey(T, row), row)

\* update_records: UPDATE table SET blocked = :blocked WHERE shipSymbol = :shipSymbol
update_records(T, ship, blocked) ==
    [i \in 1..Len(T) |->
        IF T[i].shipSymbol = ship THEN [T[i] EXCEPT !.blocked = blocked] ELSE T[i]]

\* The effect of an UPDATE statement on the lock table.  The only one the program
\* issues is that of shutdown: SET controller = NULL, priority = -1, blocked = 0
\* WHERE controller <> :not_controller AND priority < :priority_below.  The
\* comparison with a NULL controller is not true, so such a row is not selected.
ExecuteUpdate(T, stmt) ==
    [i \in 1..Len(T) |->
        IF /\ T[i].controller # NULL
           /\ T[i].controller # stmt.not_controller
           /\ T[i].priority < stmt.priority_below
        THEN [T[i] EXCEPT !.controller = NULL, !.priority = -1, !.blocked = FALSE]
        ELSE T[i]]

\* update_records_custom: executes the statement only if it starts with UPDATE.
\* A statement is a record with its verb and its parameters: the DELETE of
\* pop_request is [verb, ship, controller].
update_records_custom(T, stmt) ==
    IF stmt.verb # "UPDATE"
    THEN [ret |-> FALSE, table |-> T]
    ELSE [ret |-> TRUE, table |-> ExecuteUpdate(T, stmt)]

-----------------------------------------------------------------------------
(* fleet_resource_manager.py: getters *)

LockRows(L, ship) == SelectSeq(L, LAMBDA r : r.shipSymbol = ship)

\* A getter that never reports a block.
get_ship_blocked_status_unset(L, ship) == FALSE

get_ship_blocked_status(L, ship) ==
    IF Len(LockRows(L, ship)) > 0 THEN LockRows(L, ship)[1].blocked ELSE FALSE

\* A getter that finds no owner.
get_ship_controller_unowned(L, ship) == <<NULL, -1>>

\* <<controller, priority>>
get_ship_controller(L, ship) ==
    IF Len(LockRows(L, ship)) > 0
    THEN <<LockRows(L, ship)[1].controller, LockRows(L, ship)[1].priority>>
    ELSE <<NULL, -1>>

RECURSIVE Distinct(_)
Distinct(seq) ==
    IF seq = <<>> THEN <<>>
    ELSE LET rest == Distinct(Tail(seq))
         IN  <<Head(seq)>> \o SelectSeq(rest, LAMBDA x : x # Head(seq))

\* select distinct shipSymbol from locks where controller = c
get_controller_fleet(L, controller) ==
    LET rows == SelectSeq(L, LAMBDA r : r.controller = controller)
    IN  Distinct([i \in 1..Len(rows) |-> rows[i].shipSymbol])

-----------------------------------------------------------------------------
(* fleet_resource_manager.py: setters and locking *)

\* A setter that writes the whole row instead of updating one column.
set_ship_blocked_status_rewrite(L, ship, blocked) ==
    [ret |-> TRUE,
     locks |-> write_lock_row(L, [shipSymbol |-> ship, controller |-> NULL,
                                  priority |-> -1, blocked |-> blocked])]

set_ship_blocked_status(L, ship, blocked) ==
    [ret |-> TRUE, locks |-> update_records(L, ship, blocked)]

\* A release that does not look at the blocked flag.
release_ship_unchecked(L, ship, force) ==
    [ret |-> TRUE,
     locks |-> write_lock_row(L, [shipSymbol |-> ship, controller |-> NULL,
                                  priority |-> -1, blocked |-> FALSE])]

\* A release that clears the owner and keeps the priority of the row.
release_ship_keeps_priority(L, ship, force) ==
    IF ~force /\ get_ship_blocked_status(L, ship)
    THEN [ret |-> FALSE, locks |-> L]
    ELSE [ret |-> TRUE,
          locks |-> write_lock_row(L, [shipSymbol |-> ship, controller |-> NULL,
                                       priority |-> get_ship_controller(L, ship)[2],
                                       blocked |-> FALSE])]

release_ship(L, ship, force) ==
    IF ~force /\ get_ship_blocked_status(L, ship)
    THEN [ret |-> FALSE, locks |-> L]
    ELSE [ret |-> TRUE,
          locks |-> write_lock_row(L, [shipSymbol |-> ship, controller |-> NULL,
                                       priority |-> -1, blocked |-> FALSE])]

\* A lock that does not look at the blocked flag.
lock_ship_unchecked(L, ship, controller, priority) ==
    [ret |-> TRUE,
     locks |-> write_lock_row(L, [shipSymbol |-> ship, controller |-> controller,
                                  priority |-> priority, blocked |-> FALSE])]

lock_ship(L, ship, controller, priority) ==
    IF get_ship_blocked_status(L, ship)
    THEN [ret |-> FALSE, locks |-> L]
    ELSE [ret |-> TRUE,
          locks |-> write_lock_row(L, [shipSymbol |-> ship, controller |-> controller,
                                       priority |-> priority, blocked |-> FALSE])]

-----------------------------------------------------------------------------
(* fleet_resource_manager.py: request queue *)

get_request_timeout == 40

\* A request that is not written to the queue.
enqueue_request_lost(R, t, ship, controller, priority) == R

enqueue_request(R, t, ship, controller, priority) ==
    write_request_row(R, [ship |-> ship, controller |-> controller,
                          priority |-> priority, ts_created |-> t])

pop_request(R, ship, controller) ==
    update_records_custom(R, [verb |-> "DELETE", ship |-> ship, controller |-> controller])

\* The rows of the request table by ascending [order].  The column is set by the
\* store's schema, not by the insert of enqueue_request: it numbers the rows in
\* insertion order (per-ship FIFO), which is the order the table is kept in here.
OrderColumn(R) == R

\* The query without its condition on the age of the rows.
LiveRequests_unfiltered(R, t) == OrderColumn(R)

\* where (unixepoch('now') - ts_created) <= timeout
LiveRequests(R, t) ==
    SelectSeq(OrderColumn(R), LAMBDA r : (t - r.ts_created) <= get_request_timeout)

\* order by priority desc, [order] asc: the first row of the highest priority
FirstByPriority(Q) ==
    LET maxp == CHOOSE p \in {Q[i].priority : i \in 1..Len(Q)} :
                    \A j \in 1..Len(Q) : Q[j].priority <= p
        best == SelectSeq(Q, LAMBDA r : r.priority = maxp)
    IN  best[1]

\* The query has no condition on the ship: the queue of all ships is read.
peek_request_queue(R, t, ship) ==
    LET queue == LiveRequests(R, t)
    IN  IF Len(queue) > 0 THEN FirstByPriority(queue).controller ELSE NULL

-----------------------------------------------------------------------------
(* fleet_resource_manager.py: request interface *)

\* A handover that releases the previous owner and stops there.
Handover_release_only(L, ship, controller, priority) == release_ship(L, ship, FALSE)

\* release_ship(ship) and lock_ship(ship, controller, priority)
Handover(L, ship, controller, priority) ==
    LET rel == release_ship(L, ship, FALSE)
    IN  IF rel.ret THEN lock_ship(rel.locks, ship, controller, priority) ELSE rel

request_ship(L, R, t, ship, controller, priority) ==
    IF get_ship_blocked_status(L, ship)
    THEN [ret |-> FALSE, locks |-> L,
          requests |-> enqueue_request(R, t, ship, controller, priority)]
    ELSE IF get_ship_controller(L, ship)[1] = controller
    THEN [ret |-> TRUE, locks |-> L, requests |-> R]
    ELSE IF get_ship_controller(L, ship)[2] < priority
    THEN LET h == Handover(L, ship, controller, priority)
         IN  [ret |-> h.ret, locks |-> h.locks, requests |-> R]
    ELSE LET queued_controller == peek_request_queue(R, t, ship)
         IN  IF queued_controller = NULL \/ queued_controller = controller
             THEN LET assignment == lock_ship(L, ship, controller, priority)
                  IN  [ret |-> assignment.ret, locks |-> assignment.locks,
                       requests |-> IF assignment.ret
                                    THEN pop_request(R, ship, controller).table
                                    ELSE R]
             ELSE [ret |-> FALSE, locks |-> L,
                   requests |-> enqueue_request(R, t, ship, controller, priority)]

RECURSIVE ReleaseEach(_, _, _, _)
\* for s in fleet: success = success and release_ship(s, force)
ReleaseEach(L, fleet, force, success) ==
    IF fleet = <<>> THEN [ret |-> success, locks |-> L]
    ELSE IF ~success THEN ReleaseEach(L, Tail(fleet), force, FALSE)
    ELSE LET rel == release_ship(L, Head(fleet), force)
         IN  ReleaseEach(rel.locks, Tail(fleet), force, rel.ret)

release_fleet(L, controller, force) ==
    ReleaseEach(L, get_controller_fleet(L, controller), force, TRUE)

-----------------------------------------------------------------------------
(* Calls on the fleet resource manager by any controller *)

\* The lock row of a ship as the table holds it: (NULL, -1, FALSE) when it has none.
RowView(L, ship) ==
    IF \E i \in 1..Len(L) : L[i].shipSymbol = ship
    THEN LET row == L[CHOOSE i \in 1..Len(L) :
                        /\ L[i].shipSymbol = ship
                        /\ \A j \in 1..(i - 1) : L[j].shipSymbol # ship]
         IN  [controller |-> row.controller, priority |-> row.priority,
              blocked |-> row.blocked]
    ELSE [controller |-> NULL, priority |-> -1, blocked |-> FALSE]

NoRow == [controller |-> NULL, priority |-> -1, blocked |-> FALSE]

\* A call, its return value, and the lock row of its ship before it.
Call(op, ship, controller, priority, force, ret, pre) ==
    [op |-> op, ship |-> ship, controller |-> controller, priority |-> priority,
     force |-> force, ret |-> ret, pre |-> pre]

Init ==
    /\ locks = <<>>
    /\ requests = <<>>
    /\ now = 0
    /\ last = Call("init", NULL, NULL, -1, FALSE, FALSE, NoRow)
    /\ tasks = <<>>
    /\ cargo = [s \in ExtractionFleet |-> 0]
    /\ marked_drones = {}
    /\ stopped = {}
    /\ trader = trader_start
    /\ nav_rows = <<>>
    /\ cargo_rows = <<>>
    /\ remote = remote_start

Request(s, c, p) ==
    LET r == request_ship(locks, requests, now, s, c, p)
    IN  /\ Len(r.requests) <= MaxQueue
        /\ locks' = r.locks
        /\ requests' = r.requests
        /\ last' = Call("request", s, c, p, FALSE, r.ret, RowView(locks, s))
        /\ UNCHANGED now
        /\ UNCHANGED ctl

Lock(s, c, p) ==
    LET r == lock_ship(locks, s, c, p)
    IN  /\ locks' = r.locks
        /\ last' = Call("lock", s, c, p, FALSE, r.ret, RowView(locks, s))
        /\ UNCHANGED <<requests, now>>
        /\ UNCHANGED ctl

Release(s, f) ==
    LET r == release_ship(locks, s, f)
    IN  /\ locks' = r.locks
        /\ last' = Call("release", s, NULL, -1, f, r.ret, RowView(locks, s))
        /\ UNCHANGED <<requests, now>>
        /\ UNCHANGED ctl

SetBlocked(s, b) ==
    LET r == set_ship_blocked_status(locks, s, b)
    IN  /\ locks' = r.locks
        /\ last' = Call("setBlocked", s, NULL, -1, b, r.ret, RowView(locks, s))
        /\ UNCHANGED <<requests, now>>
        /\ UNCHANGED ctl

ReleaseFleet(c, f) ==
    LET r == release_fleet(locks, c, f)
    IN  /\ locks' = r.locks
        /\ last' = Call("releaseFleet", NULL, c, -1, f, r.ret, NoRow)
        /\ UNCHANGED <<requests, now>>
        /\ UNCHANGED ctl

\* The clock advances by d seconds.
Tick(d) ==
    /\ now + d <= MaxNow
    /\ now' = now + d
    /\ last' = Call("tick", NULL, NULL, -1, FALSE, FALSE, NoRow)
    /\ UNCHANGED <<locks, requests>>
    /\ UNCHANGED ctl

\* Any interleaving of calls by the controllers, each with its own priority.
\* The calls are made within one timeout window: the clock stands still and
\* every queue entry is live.
Next ==
    \/ \E s \in Ships, c \in Controllers : Request(s, c, PriorityOf[c])
    \/ \E s \in Ships, c \in Controllers : Lock(s, c, PriorityOf[c])
    \/ \E s \in Ships, f \in BOOLEAN : Release(s, f)
    \/ \E s \in Ships, b \in BOOLEAN : SetBlocked(s, b)
    \/ \E c \in Controllers, f \in BOOLEAN : ReleaseFleet(c, f)

Spec == Init /\ [][Next]_vars

-----------------------------------------------------------------------------
(* Properties of the fleet resource manager *)

FreeRow == [controller |-> NULL, priority |-> -1, blocked |-> FALSE]

\* The head of the live queue of one ship: highest priority first, then oldest first.
ShipQueueHead(R, t, ship) ==
    LET q == SelectSeq(LiveRequests(R, t), LAMBDA r : r.ship = ship)
    IN  IF Len(q) > 0 THEN FirstByPriority(q).controller ELSE NULL

HasEntry(R, ship, controller) ==
    \E i \in 1..Len(R) : R[i].ship = ship /\ R[i].controller = controller

\* C1: under any interleaving of request, lock, release, setBlocked and
\* releaseFleet calls the lock table holds at most one row per ship.
C1_OneRowPerShip ==
    \A s \in Ships : Len(LockRows(locks, s)) <= 1

\* Both ships have a row and the last call handed an owned ship to another controller.
C1_Witness ==
    /\ \A s \in Ships : Len(LockRows(locks, s)) = 1
    /\ last.op = "request" /\ last.ret
    /\ last.pre.controller \notin {NULL, last.controller}

\* C2: a request that returns true on an unblocked, owned ship comes from the
\* owner, or has a strictly higher priority than the owner, or is made by the
\* head of the ship's live request queue.
C2_GrantOnlyToOwnerHigherOrHead ==
    [][ ( /\ last'.op = "request" /\ last'.ret
          /\ ~last'.pre.blocked
          /\ last'.pre.controller # NULL )
        => \/ last'.pre.controller = last'.controller
           \/ last'.pre.priority < last'.priority
           \/ ShipQueueHead(requests, now, last'.ship) = last'.controller ]_vars

\* C3: a request on an unblocked ship whose owner (or no owner) has a strictly
\* lower priority returns true at once and leaves the row (c2, p2, not blocked).
C3_HigherPriorityPreempts ==
    ( /\ last.op = "request"
      /\ ~last.pre.blocked
      /\ last.pre.controller # last.controller
      /\ last.pre.priority < last.priority )
    => /\ last.ret
       /\ RowView(locks, last.ship) =
              [controller |-> last.controller, priority |-> last.priority,
               blocked |-> FALSE]

\* An owned ship was taken over while another controller had a request queued for it.
C3_Witness ==
    /\ last.op = "request" /\ last.ret
    /\ ~last.pre.blocked
    /\ last.pre.controller \notin {NULL, last.controller}
    /\ last.pre.priority < last.priority
    /\ \E i \in 1..Len(requests) :
          requests[i].ship = last.ship /\ requests[i].controller # last.controller
    /\ RowView(locks, last.ship).controller = last.controller

\* C4: a request on a blocked ship by another controller than the owner returns
\* false, leaves the lock row as it was and leaves a queue entry (s, c, p).
C4_BlockedNeverPreempted ==
    ( /\ last.op = "request"
      /\ last.pre.blocked
      /\ last.pre.controller # last.controller )
    => /\ ~last.ret
       /\ RowView(locks, last.ship) = last.pre
       /\ \E i \in 1..Len(requests) :
             /\ requests[i].ship = last.ship
             /\ requests[i].controller = last.controller
             /\ requests[i].priority = last.priority

\* A request of higher priority than the owner's was refused on a blocked ship.
C4_Witness ==
    /\ last.op = "request" /\ ~last.ret
    /\ last.pre.blocked
    /\ last.pre.controller \notin {NULL, last.controller}
    /\ last.pre.priority < last.priority
    /\ RowView(locks, last.ship).blocked

\* C5: a release without force on a blocked ship returns false and changes
\* nothing; a forced release of a blocked ship returns true and leaves the row
\* (NULL, -1, not blocked).
C5_ReleaseOfBlocked ==
    ( last.op = "release" /\ last.pre.blocked )
    => IF last.force
       THEN last.ret /\ RowView(locks, last.ship) = FreeRow
       ELSE ~last.ret /\ RowView(locks, last.ship) = last.pre

\* A release without force was refused on a blocked, owned ship.
C5_Witness ==
    /\ last.op = "release" /\ ~last.force /\ ~last.ret
    /\ last.pre.blocked /\ last.pre.controller # NULL
    /\ RowView(locks, last.ship) = last.pre

\* C9: grants among same-priority pending requests of a ship follow enqueue
\* order: a free, unblocked ship is not granted to a controller while a live
\* entry of the same priority, enqueued before its own by another controller,
\* is still waiting.
C9_GrantsFollowEnqueueOrder ==
    [][ ( /\ last'.op = "request" /\ last'.ret
          /\ last'.pre = FreeRow )
        => ~\E i, j \in 1..Len(requests) :
              /\ i < j
              /\ requests[j].ship = last'.ship
              /\ requests[j].controller = last'.controller
              /\ requests[i].ship = last'.ship
              /\ requests[i].controller # last'.controller
              /\ requests[i].priority = requests[j].priority
              /\ (now - requests[i].ts_created) <= get_request_timeout
              /\ (now - requests[j].ts_created) <= get_request_timeout ]_vars

\* C10: after a request that returned true the queue holds no entry of that
\* controller for that ship.
C10_GrantEvictsEntry ==
    ( last.op = "request" /\ last.ret )
    => ~HasEntry(requests, last.ship, last.controller)

-----------------------------------------------------------------------------
(* controllers/system_miners.py: the extraction site *)

EXCAVATORS == "EXTRACTION-CONTROLLER-EXCAVATORS"
HAULERS == "EXTRACTION-CONTROLLER-HAULERS"

BASE_PRIO_EXTRACTORS == 100
BASE_PRIO_HAULERS == 350
MAX_MINERS == 8
MAX_SIPHONERS == 10

\* Argument max_haulers of haul_yields_in_system.
MaxHaulers == 2
\* Largest number of tasks kept alive at once.
MaxTasks == 6

\* 'ship.REGISTRATION'.role, 'ship.MOUNTS'.symbol, 'ship.NAV'.waypointSymbol and
\* 'ship.CARGO'.capacity of the ships; units gained by one extraction.
Role == [s \in Ships \cup ExtractionFleet \cup TradeFleet \cup Probes |->
            IF s \in {"H1", "S2"} \cup TradeFleet THEN "HAULER"
            ELSE IF s \in {"S1"} \cup Probes THEN "SATELLITE" ELSE "EXCAVATOR"]
\* 'ship.NAV'.systemSymbol: the extraction site and S1 are in one system.
system == "X1"
SystemOf == [s \in Ships \cup ExtractionFleet \cup TradeFleet \cup Probes |->
                IF s = "S2" THEN "X2" ELSE system]
Mount == [s \in ExtractionFleet |->
            IF s = "E1" THEN "MOUNT_MINING_LASER"
            ELSE IF s \in {"E2", "E3"} THEN "MOUNT_GAS_SIPHON" ELSE "NONE"]
wp_miners == "ENGINEERED_ASTEROID"
wp_siphon == "GAS_GIANT"
Waypoint == [s \in ExtractionFleet |->
                IF s \in {"E2", "E3"} THEN wp_siphon ELSE wp_miners]
Capacity == [s \in ExtractionFleet \cup TradeFleet |-> IF s \in {"E2", "E3", "T2"} THEN 2 ELSE 4]
YieldOf == [s \in ExtractionFleet |-> IF Role[s] = "EXCAVATOR" THEN 2 ELSE 0]

Min(a, b) == IF a <= b THEN a ELSE b

RECURSIVE SetToSeq(_)
\* list(set): the elements in some fixed order
SetToSeq(S) ==
    IF S = {} THEN <<>>
    ELSE LET x == CHOOSE y \in S : TRUE IN <<x>> \o SetToSeq(S \ {x})

\* select nav.symbol from locks join nav join reg
\* where nav.systemSymbol in (:systems)
\*   and (controller is NULL [or controller = :controller] or priority < :prio)
\*   and blocked = 0 [and role = :ship_role]
\* ship_role and controller are NULL when the caller gives none.
get_available_ships_in_systems(L, systems, ship_role, prio, controller) ==
    LET rows == SelectSeq(L, LAMBDA r :
                    /\ SystemOf[r.shipSymbol] \in systems
                    /\ \/ r.controller = NULL
                       \/ (controller # NULL /\ r.controller = controller)
                       \/ r.priority < prio
                    /\ ~r.blocked
                    /\ (ship_role # NULL => Role[r.shipSymbol] = ship_role))
    IN  [i \in 1..Len(rows) |-> rows[i].shipSymbol]

get_available_mining_drones(L, priority, controller) ==
    SelectSeq(get_available_ships_in_systems(L, {system}, "EXCAVATOR", priority, controller),
              LAMBDA s : Mount[s] = "MOUNT_MINING_LASER")

get_available_siphon_drones(L, priority, controller) ==
    SelectSeq(get_available_ships_in_systems(L, {system}, "EXCAVATOR", priority, controller),
              LAMBDA s : Mount[s] = "MOUNT_GAS_SIPHON")

\* Every hauler that has a lock row, whoever owns it and blocked or not.
get_closest_haulers_to_wp(L, waypoint, priority, controller) ==
    LET rows == SelectSeq(L, LAMBDA r :
                    r.shipSymbol \in ExtractionFleet /\ Role[r.shipSymbol] = "HAULER")
    IN  [i \in 1..Len(rows) |-> rows[i].shipSymbol]

\* cargo.totalUnits >= cargo.capacity * 0.85, at the waypoint
get_full_excavators_at_wp(K, waypoint) ==
    {s \in ExtractionFleet :
        /\ Role[s] = "EXCAVATOR"
        /\ Waypoint[s] = waypoint
        /\ 100 * K[s] >= 85 * Capacity[s]}

-----------------------------------------------------------------------------
(* controllers/system_miners.py: tasks and fleets *)

\* A task is [ship, controller, kind, pc, targets, tracked]: kind is the coroutine
\* ("extract", "siphon" or "haul"), pc its position ("new" until its first step
\* has run, "done" once it has returned), and tracked tells that the fleet dict
\* of its controller holds it under its ship.  A task that is done and that no
\* dict holds is dropped.
Unfinished(T) == SelectSeq(T, LAMBDA t : t.pc # "done")

\* The entries of one fleet dict.
Fleet(T, controller, kind) ==
    SelectSeq(T, LAMBDA t : t.tracked /\ t.controller = controller /\ t.kind = kind)

\* fleet[ship] = {..., 'task': asyncio.create_task(coroutine(ship, ...))}
\* The entry the dict held for the ship is replaced; its task keeps running.
create_task(T, ship, controller, kind, targets) ==
    LET old == [i \in 1..Len(T) |->
                  IF T[i].ship = ship /\ T[i].controller = controller /\ T[i].kind = kind
                  THEN [T[i] EXCEPT !.tracked = FALSE] ELSE T[i]]
    IN  Append(SelectSeq(old, LAMBDA t : t.tracked \/ t.pc # "done"),
               [ship |-> ship, controller |-> controller, kind |-> kind, pc |-> "new",
                targets |-> targets, tracked |-> TRUE])

\* [s for s in fleet.keys() if fleet[s]['task'].done()]
get_finished_ships(T, controller, kind) ==
    LET fin == SelectSeq(Fleet(T, controller, kind), LAMBDA t : t.pc = "done")
    IN  [i \in 1..Len(fin) |-> fin[i].ship]

\* F at the value of e: a value computed once and then used as a local variable.
Bind(e, F(_)) == CHOOSE r \in {F(x) : x \in {e}} : TRUE

RECURSIVE ReleaseFinished(_, _, _, _)
\* for s in finished: fleet_resource_manager.release_ship(s); del fleet[s]
ReleaseFinished(st, finished, controller, kind) ==
    IF finished = <<>> THEN st
    ELSE LET s == Head(finished)
             rel == release_ship(st.locks, s, FALSE)
             kept == SelectSeq(st.tasks, LAMBDA t :
                        ~(t.tracked /\ t.ship = s /\ t.controller = controller
                          /\ t.kind = kind))
         IN  Bind([st EXCEPT !.locks = rel.locks, !.tasks = kept],
                  LAMBDA st1 : ReleaseFinished(st1, Tail(finished), controller, kind))

RECURSIVE AcquireEach(_, _, _, _, _, _, _)
\* for i in range(to_acquire):
\*     if request_ship(candidates[i], controller, priority): fleet[ship] = {task}
AcquireEach(st, t, candidates, to_acquire, kind, controller, priority) ==
    IF to_acquire = 0 THEN st
    ELSE LET ship == Head(candidates)
         IN  Bind(request_ship(st.locks, st.requests, t, ship, controller, priority),
                  LAMBDA r :
                    Bind([locks |-> r.locks, requests |-> r.requests,
                          tasks |-> IF r.ret
                                    THEN create_task(st.tasks, ship, controller, kind, <<>>)
                                    ELSE st.tasks],
                         LAMBDA st1 :
                           AcquireEach(st1, t, Tail(candidates), to_acquire - 1, kind,
                                       controller, priority)))

\* extract_in_system: if len(fleet) < max: request the candidates, spawn a task each
AcquireFleet(st, t, candidates, max_size, kind, controller, priority) ==
    LET size == Len(Fleet(st.tasks, controller, kind))
    IN  IF size < max_size
        THEN AcquireEach(st, t, candidates, Min(max_size - size, Len(candidates)),
                         kind, controller, priority)
        ELSE st

\* Fleet cleanup of one dict: for s in fleet: if done: release_ship(s); del fleet[s]
Cleanup(st, controller, kind) ==
    ReleaseFinished(st, get_finished_ships(st.tasks, controller, kind), controller, kind)

\* One pass of the loop of extract_in_system, from the top to its sleep.
\* extract_goods and siphon_goods never return, so the cleanup finds no task done.
ExtractPass(st, t) ==
    LET controller == EXCAVATORS
        priority == BASE_PRIO_EXTRACTORS
    IN  Bind(AcquireFleet(st, t,
                          get_available_mining_drones(st.locks, priority, controller),
                          MAX_MINERS, "extract", controller, priority),
          LAMBDA st1 :
        Bind(AcquireFleet(st1, t,
                          get_available_siphon_drones(st1.locks, priority, controller),
                          MAX_SIPHONERS, "siphon", controller, priority),
          LAMBDA st2 :
        Bind(Cleanup(st2, controller, "extract"),
          LAMBDA st3 : Cleanup(st3, controller, "siphon"))))

RECURSIVE RoundUp(_, _, _, _)
\* for d in targets: if total_yield + units(d) <= capacity: h_targets.append(d)
RoundUp(K, targets, capacity, total_yield) ==
    IF targets = <<>> THEN <<>>
    ELSE LET d == Head(targets)
         IN  IF total_yield + K[d] <= capacity
             THEN <<d>> \o RoundUp(K, Tail(targets), capacity, total_yield + K[d])
             ELSE RoundUp(K, Tail(targets), capacity, total_yield)

RECURSIVE SumUnits(_, _)
SumUnits(K, ships) ==
    IF ships = <<>> THEN 0 ELSE K[Head(ships)] + SumUnits(K, Tail(ships))

\* MIN_HAUL_RATIO = 0.75, in hundredths
MIN_HAUL_RATIO == 75

\* if total_yield < capacity: the ratio is left out.
below_min_haul_ratio_full_hold(total_yield, capacity) == total_yield < capacity

\* if total_yield < (capacity * MIN_HAUL_RATIO)
below_min_haul_ratio(total_yield, capacity) ==
    100 * total_yield < MIN_HAUL_RATIO * capacity

RECURSIVE dispatch_haulers(_, _, _, _, _, _, _)
\* st carries the tables and the tasks; ret is len(targets) == 0 at the end.
dispatch_haulers(st, K, t, candidates, targets, priority, controller) ==
    IF targets = <<>> \/ candidates = <<>>
    THEN [ret |-> (targets = <<>>), locks |-> st.locks, requests |-> st.requests,
          tasks |-> st.tasks]
    ELSE LET h == Head(candidates)
             capacity == Capacity[h] - K[h]
             h_targets == RoundUp(K, targets, capacity, 0)
             total_yield == SumUnits(K, h_targets)
         IN  Bind(request_ship(st.locks, st.requests, t, h, controller, priority),
               LAMBDA r :
                 IF ~r.ret
                 THEN Bind([st EXCEPT !.locks = r.locks, !.requests = r.requests],
                        LAMBDA st1 :
                          dispatch_haulers(st1, K, t, Tail(candidates), targets,
                                           priority, controller))
                 ELSE IF below_min_haul_ratio(total_yield, capacity)
                 THEN Bind([st EXCEPT !.locks = release_ship(r.locks, h, FALSE).locks,
                                      !.requests = r.requests],
                        LAMBDA st1 :
                          dispatch_haulers(st1, K, t, Tail(candidates), targets,
                                           priority, controller))
                 ELSE Bind([st EXCEPT !.locks = r.locks, !.requests = r.requests,
                                      !.tasks = create_task(st.tasks, h, controller,
                                                            "haul", h_targets)],
                        LAMBDA st1 :
                          dispatch_haulers(st1, K, t, Tail(candidates),
                              SelectSeq(targets, LAMBDA d :
                                  \A i \in 1..Len(h_targets) : h_targets[i] # d),
                              priority, controller)))

\* for s in fleet: marked_drones.extend(fleet[s]['targets'])
MarkedBy(T, controller) ==
    LET fleet == Fleet(T, controller, "haul")
    IN  {d \in ExtractionFleet :
            \E i \in 1..Len(fleet) : \E j \in 1..Len(fleet[i].targets) :
                fleet[i].targets[j] = d}

\* One dispatch of haul_yields_in_system: the full drones at a waypoint that are
\* not marked, the first max_haulers - len(fleet) haulers, dispatch_haulers.
DispatchTo(st, K, t, waypoint, marked, max_haulers, priority, controller) ==
    LET drones == SetToSeq(get_full_excavators_at_wp(K, waypoint) \ marked)
        candidates == get_closest_haulers_to_wp(st.locks, waypoint, priority, controller)
        max_candidates == Min(max_haulers - Len(Fleet(st.tasks, controller, "haul")),
                              Len(candidates))
    IN  dispatch_haulers(st, K, t, SubSeq(candidates, 1, max_candidates), drones,
                         priority, controller)

\* One pass of the loop of haul_yields_in_system, from the top to its sleep.
HaulPass(st, K, t, marked, max_haulers) ==
    LET controller == HAULERS
        priority == BASE_PRIO_HAULERS
    IN  Bind(Cleanup(st, controller, "haul"),
          LAMBDA st1 :
            IF Len(Fleet(st1.tasks, controller, "haul")) >= max_haulers
            THEN [locks |-> st1.locks, requests |-> st1.requests, tasks |-> st1.tasks,
                  marked_drones |-> marked]
            ELSE Bind(DispatchTo(st1, K, t, wp_miners, marked, max_haulers, priority,
                                 controller),
                   LAMBDA st2 :
                 Bind(DispatchTo(st2, K, t, wp_siphon, marked, max_haulers, priority,
                                 controller),
                   LAMBDA st3 :
                     [locks |-> st3.locks, requests |-> st3.requests,
                      tasks |-> st3.tasks,
                      marked_drones |-> MarkedBy(st3.tasks, controller)])))

-----------------------------------------------------------------------------
(* controllers/system_miners.py: the controllers and their tasks as processes *)

\* Every ship of the site has a lock row and is free; nothing runs yet.
InitMiners ==
    /\ locks = [i \in 1..4 |->
                  [shipSymbol |-> <<"E1", "E2", "E3", "H1">>[i], controller |-> NULL,
                   priority |-> -1, blocked |-> FALSE]]
    /\ requests = <<>>
    /\ now = 0
    /\ last = Call("init", NULL, NULL, -1, FALSE, FALSE, NoRow)
    /\ tasks = <<>>
    /\ cargo = [s \in ExtractionFleet |-> 0]
    /\ marked_drones = {}
    /\ stopped = {}
    /\ trader = trader_start
    /\ nav_rows = <<>>
    /\ cargo_rows = <<>>
    /\ remote = remote_start

\* A controller wakes from its sleep of several seconds only after every task
\* created before the sleep has run up to its first await.
NoNewTask == \A i \in 1..Len(tasks) : tasks[i].pc # "new"

SetPc(T, i, pc) ==
    LET T2 == [T EXCEPT ![i].pc = pc]
    IN  SelectSeq(T2, LAMBDA t : t.tracked \/ t.pc # "done")

extract_in_system ==
    /\ EXCAVATORS \notin stopped
    /\ NoNewTask
    /\ \E st \in {ExtractPass([locks |-> locks, requests |-> requests, tasks |-> tasks],
                              now)} :
           /\ Len(st.tasks) <= MaxTasks
           /\ locks' = st.locks
           /\ requests' = st.requests
           /\ tasks' = st.tasks
    /\ UNCHANGED <<now, last, cargo, marked_drones, stopped, trader>>
    /\ UNCHANGED cache

haul_yields_in_system ==
    /\ HAULERS \notin stopped
    /\ NoNewTask
    /\ \E st \in {HaulPass([locks |-> locks, requests |-> requests, tasks |-> tasks],
                           cargo, now, marked_drones, MaxHaulers)} :
           /\ Len(st.tasks) <= MaxTasks
           /\ locks' = st.locks
           /\ requests' = st.requests
           /\ tasks' = st.tasks
           /\ marked_drones' = st.marked_drones
    /\ UNCHANGED <<now, last, cargo, stopped, trader>>
    /\ UNCHANGED cache

\* extract_goods / siphon_goods up to the first await: navigate to the site.
extract_goods_start(i) ==
    /\ tasks[i].kind \in {"extract", "siphon"}
    /\ tasks[i].pc = "new"
    /\ tasks' = SetPc(tasks, i, "running")
    /\ UNCHANGED <<locks, requests, now, last, cargo, marked_drones, stopped, trader>>
    /\ UNCHANGED cache

\* One turn of the extraction loop with room in the hold.
extract_goods(i) ==
    LET ship == tasks[i].ship
    IN  /\ tasks[i].kind \in {"extract", "siphon"}
        /\ tasks[i].pc = "running"
        /\ cargo[ship] < Capacity[ship]
        /\ cargo' = [cargo EXCEPT ![ship] = Min(Capacity[ship], cargo[ship] + YieldOf[ship])]
        /\ UNCHANGED <<locks, requests, now, last, tasks, marked_drones, stopped, trader>>
        /\ UNCHANGED cache

\* haul_yields up to the first await: the hauler is blocked.
haul_yields_start(i) ==
    /\ tasks[i].kind = "haul"
    /\ tasks[i].pc = "new"
    /\ locks' = set_ship_blocked_status(locks, tasks[i].ship, TRUE).locks
    /\ tasks' = SetPc(tasks, i, "running")
    /\ UNCHANGED <<requests, now, last, cargo, marked_drones, stopped, trader>>
    /\ UNCHANGED cache

RECURSIVE DrainEach(_, _, _)
\* drain_cargo_from_ship(ship, d) for d in drones: take what fits in the hold
DrainEach(K, ship, drones) ==
    IF drones = <<>> THEN K
    ELSE LET d == Head(drones)
             to_take == Min(K[d], Capacity[ship] - K[ship])
         IN  DrainEach([K EXCEPT ![d] = K[d] - to_take, ![ship] = K[ship] + to_take],
                       ship, Tail(drones))

haul_yields_collect(i) ==
    /\ tasks[i].kind = "haul"
    /\ tasks[i].pc = "running"
    /\ cargo' = DrainEach(cargo, tasks[i].ship, tasks[i].targets)
    /\ tasks' = SetPc(tasks, i, "collected")
    /\ UNCHANGED <<locks, requests, now, last, marked_drones, stopped, trader>>
    /\ UNCHANGED cache

\* clear_cargo, then the block is lifted and the task returns.
haul_yields_finish(i) ==
    /\ tasks[i].kind = "haul"
    /\ tasks[i].pc = "collected"
    /\ cargo' = [cargo EXCEPT ![tasks[i].ship] = 0]
    /\ locks' = set_ship_blocked_status(locks, tasks[i].ship, FALSE).locks
    /\ tasks' = SetPc(tasks, i, "done")
    /\ UNCHANGED <<requests, now, last, marked_drones, stopped, trader>>
    /\ UNCHANGED cache

\* The coroutine of a controller ends at its sleep (cancellation, or an exception
\* of the pass): neither loop has a handler, nothing is released, and the tasks
\* it created run on.
Stop(c) ==
    /\ c \notin stopped
    /\ stopped' = stopped \cup {c}
    /\ UNCHANGED <<locks, requests, now, last, tasks, cargo, marked_drones, trader>>
    /\ UNCHANGED cache

NextMiners ==
    \/ extract_in_system
    \/ haul_yields_in_system
    \/ \E i \in 1..Len(tasks) : extract_goods_start(i)
    \/ \E i \in 1..Len(tasks) : extract_goods(i)
    \/ \E i \in 1..Len(tasks) : haul_yields_start(i)
    \/ \E i \in 1..Len(tasks) : haul_yields_collect(i)
    \/ \E i \in 1..Len(tasks) : haul_yields_finish(i)
    \/ \E c \in {EXCAVATORS, HAULERS} : Stop(c)

SpecMiners == InitMiners /\ [][NextMiners]_vars

-----------------------------------------------------------------------------
(* Properties of the controllers *)

TasksOn(ship) == SelectSeq(Unfinished(tasks), LAMBDA t : t.ship = ship)

\* C6: at any time at most one unfinished task exists for a ship: no controller
\* spawns a task for a ship while an earlier task for that ship has not finished.
C6_OneTaskPerShip ==
    \A s \in ExtractionFleet : Len(TasksOn(s)) <= 1

\* C7: a ship on which a task spawned by controller c is unfinished is owned by
\* c in the lock table.
C7_TaskShipOwnedBySpawner ==
    \A i \in 1..Len(tasks) :
        tasks[i].pc # "done" => RowView(locks, tasks[i].ship).controller = tasks[i].controller

\* C8: once a controller has stopped, no unblocked ship is owned by it.
C8_StopReleasesFleet ==
    \A c \in stopped :
        ~\E i \in 1..Len(locks) : locks[i].controller = c /\ ~locks[i].blocked

\* The unfinished haul tasks that have the drone among their targets.
HaulTasksOn(drone) ==
    SelectSeq(Unfinished(tasks), LAMBDA t :
        t.kind = "haul" /\ \E j \in 1..Len(t.targets) : t.targets[j] = drone)

\* C31: no excavator is a target of two unfinished haul tasks at the same time.
C31_DroneServedByOneHauler ==
    \A d \in ExtractionFleet : Len(HaulTasksOn(d)) <= 1

\* C38: a ship whose blocked flag is set has an owning controller.
C38_BlockedShipIsOwned ==
    \A i \in 1..Len(locks) : locks[i].blocked => locks[i].controller # NULL

\* A live queue entry of the controller for the ship.
HasLiveEntry(R, t, ship, controller) ==
    HasEntry(LiveRequests(R, t), ship, controller)

\* C36: after request(s, c, p) returned true the lock row of s names c as its
\* owner; after it returned false the lock row of s (owner, priority, blocked)
\* is as it was before the call and the queue holds a live entry (s, c).
C36_RequestAgreesWithTable ==
    last.op = "request" =>
        IF last.ret
        THEN RowView(locks, last.ship).controller = last.controller
        ELSE /\ RowView(locks, last.ship) = last.pre
             /\ HasLiveEntry(requests, now, last.ship, last.controller)

\* A request for an unblocked ship was denied because another controller is
\* first in the queue, and the caller was put in line behind it.
C36_Witness ==
    /\ last.op = "request" /\ ~last.ret
    /\ ~last.pre.blocked
    /\ last.pre.controller \notin {NULL, last.controller}
    /\ HasLiveEntry(requests, now, last.ship, last.controller)
    /\ Len(requests) = 2

\* A request was granted to a controller that did not own the ship before.
RequestGrantedToNewOwner ==
    /\ last.op = "request" /\ last.ret
    /\ last.pre.controller # last.controller
    /\ RowView(locks, last.ship).controller = last.controller

-----------------------------------------------------------------------------
(* The request queue over time *)

\* Calls on one ship by the three controllers, with the clock advancing between
\* them: entries are read at the ages 0, 1, 40 and 41.
NextClock ==
    \/ \E c \in Controllers : Request("S1", c, PriorityOf[c])
    \/ \E c \in Controllers : Lock("S1", c, PriorityOf[c])
    \/ \E f \in BOOLEAN : Release("S1", f)
    \/ \E b \in BOOLEAN : SetBlocked("S1", b)
    \/ \E d \in TickSteps : Tick(d)

SpecClock == Init /\ [][NextClock]_vars

Age(r) == now - r.ts_created

\* C11: a queue entry older than 40 s has no effect: when every entry is older,
\* peek returns none; a request refused on an unblocked ship was refused for a
\* live entry (age <= 40) of another controller, never for an expired one; and
\* a single entry of age <= 40 is still returned by peek.
C11_ExpiredEntriesHaveNoEffect ==
    /\ (\A i \in 1..Len(requests) : Age(requests[i]) > 40)
         => peek_request_queue(requests, now, "S1") = NULL
    /\ (last.op = "request" /\ ~last.ret /\ ~last.pre.blocked)
         => \E i \in 1..Len(requests) :
               requests[i].controller # last.controller /\ Age(requests[i]) <= 40
    /\ (Len(requests) = 1 /\ Age(requests[1]) <= 40)
         => peek_request_queue(requests, now, "S1") = requests[1].controller

\* A request was granted on a ship owned at no lower priority by another
\* controller while a third controller's entry, older than 40 s, was in the table.
C11_Witness ==
    /\ last.op = "request" /\ last.ret
    /\ last.pre.controller \notin {NULL, last.controller}
    /\ last.pre.priority >= last.priority
    /\ \E i \in 1..Len(requests) :
          requests[i].controller # last.controller /\ Age(requests[i]) > 40

\* C12: peek(s) returns the controller of the highest-priority live entry among
\* the entries enqueued for ship s, or none when s has no live entry, and a
\* request refused on an unblocked ship was refused for an entry of that ship:
\* entries of another ship change neither.
C12_QueueIsPerShip ==
    /\ \A s \in Ships :
          peek_request_queue(requests, now, s) = ShipQueueHead(requests, now, s)
    /\ (last.op = "request" /\ ~last.ret /\ ~last.pre.blocked)
          => \E i \in 1..Len(requests) :
                requests[i].ship = last.ship /\ requests[i].controller # last.controller

-----------------------------------------------------------------------------
(* Requests at any priority *)

\* The priorities a caller may pass: below, at and above the one a row holds.
Priorities == {50, 100, 300}

\* Calls on one ship by two controllers, each call at any priority.
NextPrio ==
    \/ \E c \in {"A", "B"}, p \in Priorities : Request("S1", c, p)
    \/ \E c \in {"A", "B"}, p \in Priorities : Lock("S1", c, p)
    \/ \E f \in BOOLEAN : Release("S1", f)
    \/ \E b \in BOOLEAN : SetBlocked("S1", b)

SpecPrio == Init /\ [][NextPrio]_vars

\* C13 as stated: a request by the owner returns true and leaves the lock row
\* unchanged, for any priority and also while the ship is blocked.
C13_OwnerRequestAlwaysTrue ==
    (last.op = "request" /\ last.pre.controller = last.controller)
    => last.ret /\ RowView(locks, last.ship) = last.pre

\* C13 (amended): a request by the owner leaves the lock row unchanged for any
\* priority; it returns true exactly when the ship is not blocked (on a blocked
\* ship it returns false and is queued), and repeating the call returns the same
\* and leaves the row unchanged again.
C13_OwnerRequestIdempotent ==
    (last.op = "request" /\ last.pre.controller = last.controller)
    => /\ RowView(locks, last.ship) = last.pre
       /\ last.ret = ~last.pre.blocked
       /\ last.pre.blocked => HasEntry(requests, last.ship, last.controller)
       /\ LET again == request_ship(locks, requests, now, last.ship, last.controller,
                                    last.priority)
          IN  again.ret = last.ret /\ RowView(again.locks, last.ship) = last.pre

\* The owner of an unblocked ship asked for it at another priority than its row holds.
C13_Witness ==
    /\ last.op = "request" /\ last.ret
    /\ last.pre.controller = last.controller
    /\ last.pre.priority # last.priority
    /\ ~last.pre.blocked

-----------------------------------------------------------------------------
(* Frame and round-trip properties of the setters *)

\* The step is setBlocked(s, FALSE) made right after setBlocked(s, TRUE).
BlockedThenUnblocked ==
    /\ last.op = "setBlocked" /\ last.force
    /\ last'.op = "setBlocked" /\ ~last'.force
    /\ last'.ship = last.ship

\* C14 as stated: setBlocked(s, true) followed by setBlocked(s, false) restores
\* the lock row exactly, for every lock row.
C14_BlockUnblockRestoresRow ==
    [][ BlockedThenUnblocked => RowView(locks', last.ship) = last.pre ]_vars

\* C14 (amended): setBlocked(s, b) leaves owner and priority of s and the rows of
\* the other ships as they were and sets the flag of an existing row to b;
\* setBlocked(s, true) followed by setBlocked(s, false) leaves owner and priority
\* of the row as before the pair and the flag false, which is the row before the
\* pair when that row was not blocked.
C14_SetBlockedChangesOnlyFlag ==
    [][ /\ last'.op = "setBlocked"
           => /\ RowView(locks', last'.ship).controller = last'.pre.controller
              /\ RowView(locks', last'.ship).priority = last'.pre.priority
              /\ Len(LockRows(locks, last'.ship)) > 0
                    => RowView(locks', last'.ship).blocked = last'.force
              /\ \A s \in Ships \ {last'.ship} : RowView(locks', s) = RowView(locks, s)
        /\ BlockedThenUnblocked
           => /\ RowView(locks', last.ship) = [last.pre EXCEPT !.blocked = FALSE]
              /\ ~last.pre.blocked => RowView(locks', last.ship) = last.pre ]_vars

\* An owned, blocked ship was unblocked while the other ship was owned too.
C14_Witness ==
    /\ last.op = "setBlocked" /\ ~last.force
    /\ last.pre.blocked /\ last.pre.controller # NULL
    /\ RowView(locks, last.ship) = [last.pre EXCEPT !.blocked = FALSE]
    /\ \E s \in Ships \ {last.ship} : RowView(locks, s).controller # NULL

\* C40: right after setBlocked(s, true) the blocked status of s reads true, and
\* request, lock and release without force on s are refused, whether or not s had
\* a lock row before the call.
C40_BlockTakesEffect ==
    (last.op = "setBlocked" /\ last.force) =>
        /\ get_ship_blocked_status(locks, last.ship)
        /\ ~release_ship(locks, last.ship, FALSE).ret
        /\ \A c \in Controllers, p \in Priorities :
              /\ ~lock_ship(locks, last.ship, c, p).ret
              /\ ~request_ship(locks, requests, now, last.ship, c, p).ret

\* setBlocked(s, true) was called on a ship that has a lock row.
BlockedShipWithRow ==
    /\ last.op = "setBlocked" /\ last.force
    /\ \E i \in 1..Len(locks) : locks[i].shipSymbol = last.ship

\* With a lock row for s the block takes effect.
BlockTakesEffectWithRow == BlockedShipWithRow => C40_BlockTakesEffect

\* C15: lock(s, c, p) on a blocked ship returns false and leaves owner, priority
\* and blocked unchanged; on an unblocked ship it returns true and sets the row
\* to (c, p, not blocked).
C15_LockRefusedWhenBlocked ==
    last.op = "lock"
    => IF last.pre.blocked
       THEN ~last.ret /\ RowView(locks, last.ship) = last.pre
       ELSE /\ last.ret
            /\ RowView(locks, last.ship) =
                  [controller |-> last.controller, priority |-> last.priority,
                   blocked |-> FALSE]

\* A lock by another controller, at a higher priority, was refused on a blocked ship.
C15_Witness ==
    /\ last.op = "lock" /\ ~last.ret
    /\ last.pre.blocked
    /\ last.pre.controller \notin {NULL, last.controller}
    /\ last.pre.priority < last.priority
    /\ RowView(locks, last.ship) = last.pre

\* The step is release(s) made right after a lock(s, c, p) that succeeded.
LockedThenReleased ==
    /\ last.op = "lock" /\ last.ret
    /\ last'.op = "release"
    /\ last'.ship = last.ship

\* C16: lock(s, c, p) followed by release(s) on an unblocked ship leaves the row
\* (NULL, -1, not blocked) whatever the row was before the lock, and the
\* controller of a lock row is NULL exactly when its priority is -1.
C16_LockReleaseRoundTrip ==
    [][ /\ \A i \in 1..Len(locks') :
              (locks'[i].controller = NULL) <=> (locks'[i].priority = -1)
        /\ LockedThenReleased
              => last'.ret /\ RowView(locks', last.ship) = FreeRow ]_vars

\* An owned, unblocked ship was released without force while the other ship was owned.
C16_Witness ==
    /\ last.op = "release" /\ last.ret /\ ~last.force
    /\ last.pre.controller # NULL /\ ~last.pre.blocked
    /\ RowView(locks, last.ship) = FreeRow
    /\ \E s \in Ships \ {last.ship} : RowView(locks, s).controller # NULL

\* C17: after releaseFleet(c, force) with force set no lock row names c; without
\* force every ship that c owned and that was not blocked is free, whatever c's
\* other ships are, and c's blocked ships are unchanged.
C17_ReleaseFleetReleasesEveryShip ==
    [][ last'.op = "releaseFleet"
        => IF last'.force
           THEN \A i \in 1..Len(locks') : locks'[i].controller # last'.controller
           ELSE \A s \in Ships :
                   RowView(locks, s).controller = last'.controller
                   => IF RowView(locks, s).blocked
                      THEN RowView(locks', s) = RowView(locks, s)
                      ELSE RowView(locks', s) = FreeRow ]_vars

-----------------------------------------------------------------------------
(* The ships a controller may take *)

\* The elements of a sequence.
Range(seq) == {seq[i] : i \in 1..Len(seq)}

\* C18: availableShips(systems, role, priority, controller) returns exactly the
\* ships of the listed systems (and of the role, when one is given) that are not
\* blocked and whose owner is null, or is controller, or has a priority strictly
\* below priority; a ship that has no lock row yet is free and is returned.
C18_AvailableShipsExact ==
    \A systems \in SUBSET {"X1", "X2"}, ship_role \in {NULL, "SATELLITE", "HAULER"},
       prio \in Priorities, controller \in Controllers \cup {NULL} :
        Range(get_available_ships_in_systems(locks, systems, ship_role, prio, controller))
        = {s \in Ships :
              /\ SystemOf[s] \in systems
              /\ (ship_role # NULL => Role[s] = ship_role)
              /\ ~RowView(locks, s).blocked
              /\ \/ RowView(locks, s).controller = NULL
                 \/ (controller # NULL /\ RowView(locks, s).controller = controller)
                 \/ RowView(locks, s).priority < prio}

-----------------------------------------------------------------------------
(* agent.py: shutdown *)

shutdown(L) ==
    update_records_custom(L, [verb |-> "UPDATE", not_controller |-> "USER",
                              priority_below |-> 10000])

Shutdown ==
    LET r == shutdown(locks)
    IN  /\ locks' = r.table
        /\ last' = Call("shutdown", NULL, NULL, -1, FALSE, r.ret, NoRow)
        /\ UNCHANGED <<requests, now>>
        /\ UNCHANGED ctl

\* The owners the lock table may hold at shutdown: a controller, the user, and a
\* controller of the highest priority class.
Owners == {<<"A", 100>>, <<"USER", 100>>, <<"A", 10000>>}

NextShutdown ==
    \/ \E s \in Ships, o \in Owners : Lock(s, o[1], o[2])
    \/ \E s \in Ships, f \in BOOLEAN : Release(s, f)
    \/ \E s \in Ships, b \in BOOLEAN : SetBlocked(s, b)
    \/ Shutdown

SpecShutdown == Init /\ [][NextShutdown]_vars

\* C19: shutdown() sets every lock row whose controller is not USER and whose
\* priority is below 10000 to (NULL, -1, not blocked), blocked rows included, and
\* leaves the rows owned by USER or of priority 10000 and more unchanged.
C19_ShutdownClearsRows ==
    [][ last'.op = "shutdown"
        => \A s \in Ships :
              IF /\ RowView(locks, s).controller # "USER"
                 /\ RowView(locks, s).priority < 10000
              THEN RowView(locks', s) = FreeRow
              ELSE RowView(locks', s) = RowView(locks, s) ]_vars

-----------------------------------------------------------------------------
(* controllers/system_traders.py: the greedy trade controller *)

BASE_PRIO_TRADERS == 300
\* controller = BASE_CONTROLLER_ID + '-' + system
TRADER == "TRADE-CONTROLLER-X1"
\* Argument max_haulers of trade_in_system.
MaxTradeHaulers == 2

\* get_greedy_trades(): the rows of TRADE_SYSTEM_MARGINS that qualify, most
\* profitable first.  Two routes carry the same good between different markets.
GreedyTrades ==
    << [symbol |-> "IRON", source |-> "A1", sink |-> "B1", trade_volume |-> 2,
        max_traders |-> 1],
       [symbol |-> "IRON", source |-> "C1", sink |-> "D1", trade_volume |-> 2,
        max_traders |-> 2] >>

\* The waypoints of the system lie on a line; their positions, and so the
\* distances of F_nav.wp_distance, are counted in halves of a unit.
Waypoints == {"A1", "B1", "C1", "D1", "F1", "G1", "J1", "K1", "L1"}
Coord == [w \in Waypoints |->
            IF w = "A1" THEN 0 ELSE IF w = "B1" THEN 1 ELSE IF w = "C1" THEN 3
            ELSE IF w = "D1" THEN 4 ELSE IF w = "F1" THEN 7
            ELSE IF w = "G1" THEN 10 ELSE IF w = "J1" THEN 14
            ELSE IF w = "K1" THEN 80 ELSE 120]
wp_distance(wp1, wp2) ==
    IF Coord[wp1] >= Coord[wp2] THEN Coord[wp1] - Coord[wp2] ELSE Coord[wp2] - Coord[wp1]

Max(a, b) == IF a >= b THEN a ELSE b

RECURSIVE find_closest_hauler(_, _, _)
\* sorted(candidates, key=lambda c : wp_distance(market, get_ship_waypoint(c)))
\* The sort is stable: of two haulers equally far the earlier candidate comes first.
find_closest_hauler(candidates, market, nav) ==
    IF candidates = <<>> THEN <<>>
    ELSE LET d(i) == wp_distance(market, nav[candidates[i]])
             k == CHOOSE i \in 1..Len(candidates) :
                     /\ \A j \in 1..Len(candidates) : d(i) <= d(j)
                     /\ \A j \in 1..(i - 1) : d(j) > d(i)
             rest == [i \in 1..(Len(candidates) - 1) |->
                        IF i < k THEN candidates[i] ELSE candidates[i + 1]]
         IN  <<candidates[k]>> \o find_closest_hauler(rest, market, nav)

\* ongoing_trades.get(symbol, dict()).get(source, dict()).get(sink, 0)
\* The ledger is the set of its leaves [tradeSymbol, source, sink, n].
n_ongoing(O, symbol, source, sink) ==
    LET leaf == {r \in O : r.tradeSymbol = symbol /\ r.source = source /\ r.sink = sink}
    IN  IF leaf = {} THEN 0 ELSE (CHOOSE r \in leaf : TRUE).n

\* ongoing_trades[symbol][source][sink] = n
SetLeaf(O, symbol, source, sink, n) ==
    {r \in O : ~(r.tradeSymbol = symbol /\ r.source = source /\ r.sink = sink)}
        \cup {[tradeSymbol |-> symbol, source |-> source, sink |-> sink, n |-> n]}

\* del ongoing_trades[symbol][source][sink]
DelLeaf(O, symbol, source, sink) ==
    {r \in O : ~(r.tradeSymbol = symbol /\ r.source = source /\ r.sink = sink)}

\* ongoing_trades[symbol] = {source: {sink: n}}: the dict held under the symbol
\* is replaced as a whole.
SetSymbol(O, symbol, source, sink, n) ==
    {r \in O : r.tradeSymbol # symbol}
        \cup {[tradeSymbol |-> symbol, source |-> source, sink |-> sink, n |-> n]}

\* TaskTrade(tradeSymbol, source, sink, units, controller, repeats)
TaskTrade(tradeSymbol, source, sink, units, controller, repeats) ==
    [tradeSymbol |-> tradeSymbol, source |-> source, sink |-> sink, units |-> units,
     controller |-> controller, repeats |-> repeats]

\* fleet[s]['trade'] of a ship the fleet dict holds
TradeOf(T, controller, s) ==
    LET f == SelectSeq(Fleet(T, controller, "trade"), LAMBDA t : t.ship = s)
    IN  f[1].targets

RECURSIVE ReleaseTraders(_, _, _)
\* for s in get_finished_ships(fleet): the ledger entry of the trade of s is
\* deleted, or lowered by one; release_ship(s); del fleet[s]
ReleaseTraders(st, finished, controller) ==
    IF finished = <<>> THEN st
    ELSE LET s == Head(finished)
             finished_trade == TradeOf(st.tasks, controller, s)
             n == n_ongoing(st.ongoing_trades, finished_trade.tradeSymbol,
                            finished_trade.source, finished_trade.sink)
             O == IF n < 2
                  THEN IF n # 0
                       THEN DelLeaf(st.ongoing_trades, finished_trade.tradeSymbol,
                                    finished_trade.source, finished_trade.sink)
                       ELSE st.ongoing_trades
                  ELSE SetLeaf(st.ongoing_trades, finished_trade.tradeSymbol,
                               finished_trade.source, finished_trade.sink, n - 1)
             rel == release_ship(st.locks, s, FALSE)
             kept == SelectSeq(st.tasks, LAMBDA t :
                        ~(t.tracked /\ t.ship = s /\ t.controller = controller
                          /\ t.kind = "trade"))
         IN  Bind([st EXCEPT !.locks = rel.locks, !.tasks = kept, !.ongoing_trades = O],
                  LAMBDA st1 : ReleaseTraders(st1, Tail(finished), controller))

\* n_repeats = max(1, repeats): the capacity of the hold is left out.
bundle_repeats_any_hold(capacity, units, repeats) == Max(1, repeats)

\* n_repeats = max(1, min(get_ship_cargo(ship)['capacity'] // trade.units, trade.repeats))
bundle_repeats(capacity, units, repeats) == Max(1, Min(capacity \div units, repeats))

\* assign_hauler_to_trade(candidates, fleet, trade, controller, priority):
\* ret is the ship assigned, NULL when there is none.
assign_hauler_to_trade(st, nav, t, candidates, trade, controller, priority) ==
    IF Len(candidates) < 1 THEN [ret |-> NULL, st |-> st]
    ELSE LET ship == find_closest_hauler(candidates, trade.source, nav)[1]
         IN  Bind(request_ship(st.locks, st.requests, t, ship, controller, priority),
                  LAMBDA acquired :
                    IF acquired.ret
                    THEN LET n_repeats == bundle_repeats(Capacity[ship], trade.units,
                                                         trade.repeats)
                         IN  [ret |-> ship,
                              st |-> [st EXCEPT
                                        !.locks = acquired.locks,
                                        !.requests = acquired.requests,
                                        !.tasks = create_task(st.tasks, ship, controller,
                                                     "trade",
                                                     [trade EXCEPT !.repeats = n_repeats])]]
                    ELSE [ret |-> NULL,
                          st |-> [st EXCEPT !.locks = acquired.locks,
                                            !.requests = acquired.requests]])

RECURSIVE ClearTrades(_, _, _, _, _)
\* The loop "while len(trades) > 0 and t_ix < len(trades)" of trade_in_system from
\* its test up to the sleep that follows an assignment (pc "assigned"), or up to
\* the sleep that ends the pass (pc "sleep").  t_ix counts from 0 as in the code.
ClearTrades(st, nav, t, trades, t_ix) ==
    LET controller == TRADER
        priority == BASE_PRIO_TRADERS
        sleep == [st |-> st, pc |-> "sleep", trades |-> trades, t_ix |-> t_ix]
    IN  IF ~(Len(trades) > 0 /\ t_ix < Len(trades)) THEN sleep
        ELSE IF Len(Fleet(st.tasks, controller, "trade")) >= MaxTradeHaulers THEN sleep
        ELSE LET tr == trades[t_ix + 1]
                 n == n_ongoing(st.ongoing_trades, tr.symbol, tr.source, tr.sink)
             IN  IF n < tr.max_traders
                 THEN LET available == get_available_ships_in_systems(st.locks, {system},
                                           "HAULER", priority, controller)
                          haulers == SelectSeq(available, LAMBDA h :
                                        ~\E i \in 1..Len(st.tasks) :
                                            /\ st.tasks[i].tracked
                                            /\ st.tasks[i].controller = controller
                                            /\ st.tasks[i].kind = "trade"
                                            /\ st.tasks[i].ship = h)
                          trade == TaskTrade(tr.symbol, tr.source, tr.sink, tr.trade_volume,
                                             controller, Max(1, tr.max_traders - n))
                      IN  Bind(assign_hauler_to_trade(st, nav, t, haulers, trade,
                                                      controller, priority),
                               LAMBDA a :
                                 IF a.ret # NULL
                                 THEN LET n_covered == TradeOf(a.st.tasks, controller,
                                                               a.ret).repeats
                                          O == IF n = 0
                                               THEN SetSymbol(a.st.ongoing_trades,
                                                        trade.tradeSymbol, trade.source,
                                                        trade.sink, n_covered)
                                               ELSE SetLeaf(a.st.ongoing_trades,
                                                        trade.tradeSymbol, trade.source,
                                                        trade.sink, n + n_covered)
                                      IN  [st |-> [a.st EXCEPT !.ongoing_trades = O],
                                           pc |-> "assigned",
                                           trades |-> IF n_ongoing(O, trade.tradeSymbol,
                                                            trade.source, trade.sink)
                                                         >= tr.max_traders
                                                      THEN Tail(trades) ELSE trades,
                                           t_ix |-> t_ix]
                                 ELSE [st |-> a.st, pc |-> "sleep", trades |-> trades,
                                       t_ix |-> t_ix])
                 ELSE IF t_ix < Len(trades) - 1
                 THEN ClearTrades(st, nav, t, trades, t_ix + 1)
                 ELSE sleep

\* One pass of trade_in_system from the top of "while True" to its first sleep:
\* the trades are read, the finished ships released, the trades cleared.
TradePass(st, nav, t) ==
    Bind(ReleaseTraders(st, get_finished_ships(st.tasks, TRADER, "trade"), TRADER),
         LAMBDA st1 : ClearTrades(st1, nav, t, GreedyTrades, 0))

-----------------------------------------------------------------------------
(* controllers/system_traders.py: the controller and its tasks as processes *)

\* Both haulers have a lock row and are free; nothing runs yet.
InitTraders ==
    /\ locks = [i \in 1..2 |->
                  [shipSymbol |-> <<"T1", "T2">>[i], controller |-> NULL,
                   priority |-> -1, blocked |-> FALSE]]
    /\ requests = <<>>
    /\ now = 0
    /\ last = Call("init", NULL, NULL, -1, FALSE, FALSE, NoRow)
    /\ tasks = <<>>
    /\ cargo = [s \in ExtractionFleet |-> 0]
    /\ marked_drones = {}
    /\ stopped = {}
    /\ trader = trader_start
    /\ nav_rows = <<>>
    /\ cargo_rows = <<>>
    /\ remote = remote_start

TraderState == [locks |-> locks, requests |-> requests, tasks |-> tasks,
                ongoing_trades |-> trader.ongoing_trades]

\* The pass result becomes the state.
TraderSleeps(r) ==
    /\ locks' = r.st.locks
    /\ requests' = r.st.requests
    /\ tasks' = r.st.tasks
    /\ trader' = [trader EXCEPT !.pc = r.pc, !.trades = r.trades, !.t_ix = r.t_ix,
                                !.ongoing_trades = r.st.ongoing_trades]
    /\ last' = [op |-> "trade_in_system"]
    /\ UNCHANGED <<now, cargo, marked_drones, stopped>>
    /\ UNCHANGED cache

\* The controller wakes from "await asyncio.sleep(refresh_period)".
trade_in_system ==
    /\ trader.pc = "sleep"
    /\ NoNewTask
    /\ \E r \in {TradePass(TraderState, trader.nav, now)} : TraderSleeps(r)

\* The controller wakes from the short sleep that follows an assignment.
trade_in_system_next_trade ==
    /\ trader.pc = "assigned"
    /\ NoNewTask
    /\ \E r \in {ClearTrades(TraderState, trader.nav, now, trader.trades, trader.t_ix)} :
           TraderSleeps(r)

\* What a step of execute_trade did: the projected profit it read, whether it
\* issued the purchase and the sale and what they gave, and, when the task
\* returned in this step, its result.
TradeStep(ship, step, projected_profit, purchase, bought, sale, sold, returned, ret) ==
    [op |-> "execute_trade", ship |-> ship, step |-> step,
     projected_profit |-> projected_profit, purchase |-> purchase, bought |-> bought,
     sale |-> sale, sold |-> sold, returned |-> returned, ret |-> ret]

\* execute_trade up to its first await: the ship is blocked.
execute_trade_start(i) ==
    /\ tasks[i].kind = "trade"
    /\ tasks[i].pc = "new"
    /\ locks' = set_ship_blocked_status(locks, tasks[i].ship, TRUE).locks
    /\ tasks' = SetPc(tasks, i, "running")
    /\ last' = TradeStep(tasks[i].ship, "start", 0, FALSE, FALSE, FALSE, FALSE, FALSE,
                         FALSE)
    /\ UNCHANGED <<requests, now, cargo, marked_drones, stopped, trader>>
    /\ UNCHANGED cache

\* scripts.navigate(ship, trade.source): the ship reaches the source market, or
\* it does not, and the block is lifted and the task returns False.
execute_trade_navigate(i, reached) ==
    LET ship == tasks[i].ship
    IN  /\ tasks[i].kind = "trade"
        /\ tasks[i].pc = "running"
        /\ IF reached
           THEN /\ trader' = [trader EXCEPT !.nav[ship] = tasks[i].targets.source]
                /\ tasks' = SetPc(tasks, i, "at_source")
                /\ UNCHANGED locks
           ELSE /\ locks' = set_ship_blocked_status(locks, ship, FALSE).locks
                /\ tasks' = SetPc(tasks, i, "done")
                /\ UNCHANGED trader
        /\ last' = TradeStep(ship, "navigate", 0, FALSE, FALSE, FALSE, FALSE, ~reached,
                             FALSE)
        /\ UNCHANGED <<requests, now, cargo, marked_drones, stopped>>
        /\ UNCHANGED cache

\* The rows that the query of get_projected_trade_profit can give: none, or one
\* row with the profit of the route.
ProfitRows == {<<>>, <<0>>, <<49>>, <<50>>}

\* get_projected_trade_profit(...) or -1: no row gives None and a profit of 0
\* gives 0, and both become -1.
projected_trade_profit(rows) ==
    IF rows = <<>> THEN -1 ELSE IF rows[1] = 0 THEN -1 ELSE rows[1]

\* Every projected profit passes.
losing_trade_never(projected_profit) == FALSE

\* if projected_profit < 50: success = False
losing_trade(projected_profit) == projected_profit < 50

\* At the source market the profit is projected again; a losing trade is given
\* up, the block is lifted and the task returns False.  Otherwise
\* buy_from_market issues the purchase; when it fails the task returns False in
\* the same way.
execute_trade_buy(i, rows, buy) ==
    LET ship == tasks[i].ship
        projected_profit == projected_trade_profit(rows)
    IN  /\ tasks[i].kind = "trade"
        /\ tasks[i].pc = "at_source"
        /\ IF losing_trade(projected_profit)
           THEN /\ locks' = set_ship_blocked_status(locks, ship, FALSE).locks
                /\ tasks' = SetPc(tasks, i, "done")
                /\ last' = TradeStep(ship, "buy", projected_profit, FALSE, FALSE, FALSE,
                                     FALSE, TRUE, FALSE)
           ELSE IF ~buy
           THEN /\ locks' = set_ship_blocked_status(locks, ship, FALSE).locks
                /\ tasks' = SetPc(tasks, i, "done")
                /\ last' = TradeStep(ship, "buy", projected_profit, TRUE, FALSE, FALSE,
                                     FALSE, TRUE, FALSE)
           ELSE /\ locks' = locks
                /\ tasks' = SetPc(tasks, i, "bought")
                /\ last' = TradeStep(ship, "buy", projected_profit, TRUE, TRUE, FALSE,
                                     FALSE, FALSE, FALSE)
        /\ UNCHANGED <<requests, now, cargo, marked_drones, stopped, trader>>
        /\ UNCHANGED cache

\* sell_to_market: the ship flies to the sink; when it gets there the sale is
\* issued.  The block is lifted and the task returns what the sale gave.
execute_trade_sell(i, reached, sell) ==
    LET ship == tasks[i].ship
    IN  /\ tasks[i].kind = "trade"
        /\ tasks[i].pc = "bought"
        /\ trader' = [trader EXCEPT
                        !.nav[ship] = IF reached THEN tasks[i].targets.sink ELSE @]
        /\ locks' = set_ship_blocked_status(locks, ship, FALSE).locks
        /\ tasks' = SetPc(tasks, i, "done")
        /\ last' = TradeStep(ship, "sell", 0, FALSE, FALSE, reached, reached /\ sell,
                             TRUE, reached /\ sell)
        /\ UNCHANGED <<requests, now, cargo, marked_drones, stopped>>
        /\ UNCHANGED cache

NextTraders ==
    \/ trade_in_system
    \/ trade_in_system_next_trade
    \/ \E i \in 1..Len(tasks) : execute_trade_start(i)
    \/ \E i \in 1..Len(tasks), reached \in BOOLEAN : execute_trade_navigate(i, reached)
    \/ \E i \in 1..Len(tasks), rows \in ProfitRows, buy \in BOOLEAN :
           execute_trade_buy(i, rows, buy)
    \/ \E i \in 1..Len(tasks), reached \in BOOLEAN, sell \in BOOLEAN :
           execute_trade_sell(i, reached, sell)

SpecTraders == InitTraders /\ [][NextTraders]_vars

\* Sum of the repeats of the unfinished tasks that run the trade.
RECURSIVE SumRepeats(_)
SumRepeats(T) ==
    IF T = <<>> THEN 0 ELSE Head(T).targets.repeats + SumRepeats(Tail(T))

SlotsInUse(symbol, source, sink) ==
    SumRepeats(SelectSeq(Unfinished(tasks), LAMBDA t :
        /\ t.kind = "trade"
        /\ t.targets.tradeSymbol = symbol
        /\ t.targets.source = source
        /\ t.targets.sink = sink))

\* C20: for every trade (tradeSymbol, source, sink) the slots in use, the sum of
\* the repeats of its unfinished tasks, are at most the max_traders of the trade,
\* also when two routes carry the same tradeSymbol.
C20_TradeNeverOverSubscribed ==
    \A k \in 1..Len(GreedyTrades) :
        SlotsInUse(GreedyTrades[k].symbol, GreedyTrades[k].source, GreedyTrades[k].sink)
            <= GreedyTrades[k].max_traders

\* The tasks of the fleet dict of the trader that run the trade.
FleetTasksOf(symbol, source, sink) ==
    SelectSeq(Fleet(tasks, TRADER, "trade"), LAMBDA t :
        /\ t.targets.tradeSymbol = symbol
        /\ t.targets.source = source
        /\ t.targets.sink = sink)

\* C21: if the ledger entry of a trade (sym, src, sink) is n, exactly n tasks of
\* the fleet of the trader reference the trade; a trade without ledger entry
\* (n = 0) is referenced by no fleet task.
C21_LedgerCountsFleetTasks ==
    \A k \in 1..Len(GreedyTrades) :
        LET tr == GreedyTrades[k]
        IN  n_ongoing(trader.ongoing_trades, tr.symbol, tr.source, tr.sink)
                = Len(FleetTasksOf(tr.symbol, tr.source, tr.sink))

\* The fleet and the ledger as the next pass has them once it has drained the
\* finished ships.
AfterDrain ==
    ReleaseTraders(TraderState, get_finished_ships(tasks, TRADER, "trade"), TRADER)

\* C30: when the controller sleeps between two passes and every task assigned
\* to a trade has finished, the drain of the next pass leaves no count for that
\* trade in the ledger: it removes what the assignments added, and the trade
\* can be assigned up to max_traders again.
C30_DrainRemovesWhatWasAdded ==
    trader.pc = "sleep" =>
        \A k \in 1..Len(GreedyTrades) :
            LET tr == GreedyTrades[k]
                assigned == FleetTasksOf(tr.symbol, tr.source, tr.sink)
            IN  (Len(assigned) > 0 /\ \A i \in 1..Len(assigned) : assigned[i].pc = "done")
                    => n_ongoing(AfterDrain.ongoing_trades, tr.symbol, tr.source, tr.sink)
                           = 0

\* The ledger a pass works on when it clears the trades: at the top of the loop
\* the finished ships have been drained first.
LedgerBeforeAssignment ==
    IF trader.pc = "sleep"
    THEN ReleaseTraders(TraderState, get_finished_ships(tasks, TRADER, "trade"),
                        TRADER).ongoing_trades
    ELSE trader.ongoing_trades

\* The row of get_greedy_trades() a task was made from.
TradeRow(trade) ==
    CHOOSE tr \in {GreedyTrades[k] : k \in 1..Len(GreedyTrades)} :
        tr.symbol = trade.tradeSymbol /\ tr.source = trade.source /\ tr.sink = trade.sink

\* C22: on a successful assignment the repeats of the new task are
\* max(1, min(floor(cargoCap / tradeVolume), maxTraders - ongoing)) and the
\* ledger entry of the trade grows by exactly the repeats; a hold of 60, a
\* volume of 20, maxTraders 4 and ongoing 1 give repeats 3 and a ledger of 4.
C22_BundledRepeats ==
    [][ /\ (NoNewTask /\ ~(\A i \in 1..Len(tasks') : tasks'[i].pc # "new")) =>
            LET task == tasks'[Len(tasks')]
                trade == task.targets
                ongoing == n_ongoing(LedgerBeforeAssignment, trade.tradeSymbol,
                                     trade.source, trade.sink)
                expected == Max(1, Min(Capacity[task.ship] \div trade.units,
                                       TradeRow(trade).max_traders - ongoing))
            IN  /\ trader'.pc = "assigned"
                /\ trade.repeats = expected
                /\ n_ongoing(trader'.ongoing_trades, trade.tradeSymbol, trade.source,
                             trade.sink) = ongoing + expected
        /\ bundle_repeats(60, 20, Max(1, 4 - 1)) = 3
        /\ 1 + bundle_repeats(60, 20, Max(1, 4 - 1)) = 4 ]_vars

\* A task that bundles two repeats was assigned, and the ledger holds both.
C22_Witness ==
    /\ trader.pc = "assigned"
    /\ tasks[Len(tasks)].pc = "new"
    /\ tasks[Len(tasks)].targets.repeats = 2
    /\ n_ongoing(trader.ongoing_trades, "IRON", "C1", "D1") = 2

\* The positions of the trade tasks of a ship that have not returned.
TradePcs(ship) ==
    {tasks[i].pc : i \in {j \in 1..Len(tasks) :
        tasks[j].kind = "trade" /\ tasks[j].ship = ship /\ tasks[j].pc # "done"}}

\* A purchase is issued only with a projected profit of 50 or more; a step that
\* gives the trade up or whose purchase fails issues no sale and returns False.
PurchaseGuarded ==
    (last.op = "execute_trade" /\ last.step = "buy") =>
        /\ last.purchase => last.projected_profit >= 50
        /\ (~last.purchase \/ ~last.bought) =>
               (~last.sale /\ last.returned /\ ~last.ret)
        /\ (last.purchase /\ last.bought) => (~last.sale /\ ~last.returned)

\* A sale is issued only by a task whose purchase succeeded in an earlier step.
SaleFollowsPurchase ==
    /\ (last'.op = "execute_trade" /\ last'.sale) => "bought" \in TradePcs(last'.ship)
    /\ \A ship \in TradeFleet :
          ("bought" \in TradePcs(ship)' /\ "bought" \notin TradePcs(ship)) =>
              /\ last'.op = "execute_trade" /\ last'.ship = ship
              /\ last'.step = "buy" /\ last'.purchase /\ last'.bought

\* From its first step until it returns, the task keeps its ship blocked.
BlockedWhileTrading ==
    \A ship \in TradeFleet :
        TradePcs(ship) \cap {"running", "at_source", "bought"} # {} =>
            get_ship_blocked_status(locks, ship)

-----------------------------------------------------------------------------
(* The trade controller and the haul controller of one system on one hauler *)

\* The hauler H1 is free and at C1; the mining drone E1 waits with a full hold.
\* trade_in_system and haul_yields_in_system both run: the first takes haulers
\* that are free or owned below its priority, the second asks for every hauler.
InitTakeover ==
    /\ locks = <<[shipSymbol |-> "H1", controller |-> NULL, priority |-> -1,
                  blocked |-> FALSE]>>
    /\ requests = <<>>
    /\ now = 0
    /\ last = Call("init", NULL, NULL, -1, FALSE, FALSE, NoRow)
    /\ tasks = <<>>
    /\ cargo = [s \in ExtractionFleet |-> IF s = "E1" THEN Capacity[s] ELSE 0]
    /\ marked_drones = {}
    /\ stopped = {}
    /\ trader = [trader_start EXCEPT
                    !.nav = [s \in TradeFleet \cup {"H1"} |->
                                IF s = "T2" THEN "A1" ELSE "C1"]]
    /\ nav_rows = <<>>
    /\ cargo_rows = <<>>
    /\ remote = remote_start

NextTakeover ==
    \/ trade_in_system
    \/ trade_in_system_next_trade
    \/ \E i \in 1..Len(tasks) : execute_trade_start(i)
    \/ \E i \in 1..Len(tasks), reached \in BOOLEAN : execute_trade_navigate(i, reached)
    \/ \E i \in 1..Len(tasks), rows \in ProfitRows, buy \in BOOLEAN :
           execute_trade_buy(i, rows, buy)
    \/ \E i \in 1..Len(tasks), reached \in BOOLEAN, sell \in BOOLEAN :
           execute_trade_sell(i, reached, sell)
    \/ haul_yields_in_system
    \/ \E i \in 1..Len(tasks) : haul_yields_start(i)
    \/ \E i \in 1..Len(tasks) : haul_yields_collect(i)
    \/ \E i \in 1..Len(tasks) : haul_yields_finish(i)

SpecTakeover == InitTakeover /\ [][NextTakeover]_vars

\* The controller drains the ship in this step: its fleet dict holds a finished
\* task of the ship before the step and not after it.
Drains(controller, kind, ship) ==
    /\ \E i \in 1..Len(tasks) :
          /\ tasks[i].tracked /\ tasks[i].controller = controller
          /\ tasks[i].kind = kind /\ tasks[i].ship = ship /\ tasks[i].pc = "done"
    /\ ~\E i \in 1..Len(tasks') :
          /\ tasks'[i].tracked /\ tasks'[i].controller = controller
          /\ tasks'[i].kind = kind /\ tasks'[i].ship = ship /\ tasks'[i].pc = "done"

\* C37: when a controller drains a finished ship that another controller owns
\* by now, the lock row of the ship keeps its owner.
C37_DrainKeepsNewOwner ==
    [][ \A ship \in {"H1"} :
          \A d \in {[controller |-> TRADER, kind |-> "trade"],
                     [controller |-> HAULERS, kind |-> "haul"]} :
            ( /\ Drains(d.controller, d.kind, ship)
              /\ RowView(locks, ship).controller \notin {NULL, d.controller} )
            => RowView(locks', ship).controller = RowView(locks, ship).controller
      ]_vars

-----------------------------------------------------------------------------
(* controllers/system_miners.py: dispatch_haulers on its own *)

\* The candidates of a dispatch: two haulers of the system, the second with the
\* smaller hold.
DispatchCandidates == <<"H1", "T2">>
\* The drones a dispatch is asked to cover, in any order.
DispatchTargets == {<<"E1">>, <<"E2">>, <<"E1", "E2">>, <<"E2", "E1">>}

\* The holds are filled to any level, the first hauler is free or blocked by a
\* task it runs, the second is free; no order has been given.
InitDispatch ==
    /\ \E b \in BOOLEAN :
          locks = << [shipSymbol |-> "H1", controller |-> NULL, priority |-> -1,
                      blocked |-> b],
                     [shipSymbol |-> "T2", controller |-> NULL, priority |-> -1,
                      blocked |-> FALSE] >>
    /\ requests = <<>>
    /\ now = 0
    /\ last = [op |-> "init"]
    /\ tasks = <<>>
    /\ cargo \in [ExtractionFleet \cup {"T2"} -> 0..4]
    /\ \A s \in DOMAIN cargo : cargo[s] <= Capacity[s]
    /\ marked_drones = {}
    /\ stopped = {}
    /\ trader = trader_start
    /\ nav_rows = <<>>
    /\ cargo_rows = <<>>
    /\ remote = remote_start

\* dispatch_haulers(candidates, targets, fleet, priority, controller), called once.
Dispatch(targets) ==
    /\ last.op = "init"
    /\ \E r \in {dispatch_haulers([locks |-> locks, requests |-> requests,
                                   tasks |-> tasks],
                                  cargo, now, DispatchCandidates, targets,
                                  BASE_PRIO_HAULERS, HAULERS)} :
           /\ locks' = r.locks
           /\ requests' = r.requests
           /\ tasks' = r.tasks
           /\ last' = [op |-> "dispatch", targets |-> targets, ret |-> r.ret]
    /\ UNCHANGED <<now, cargo, marked_drones, stopped, trader>>
    /\ UNCHANGED cache

NextDispatch == \E targets \in DispatchTargets : Dispatch(targets)

SpecDispatch == InitDispatch /\ [][NextDispatch]_vars

\* capacity = h_cargo['capacity'] - h_cargo['units']
FreeCapacity(h) == Capacity[h] - cargo[h]

\* The order given to a hauler: the targets of its task, <<>> when it has none.
HasOrder(h) == \E i \in 1..Len(tasks) : tasks[i].ship = h /\ tasks[i].kind = "haul"
OrderOf(h) ==
    IF HasOrder(h)
    THEN tasks[CHOOSE i \in 1..Len(tasks) : tasks[i].ship = h /\ tasks[i].kind = "haul"].targets
    ELSE <<>>

\* The targets left for the second candidate.
LeftAfter(targets, order) ==
    SelectSeq(targets, LAMBDA d : \A i \in 1..Len(order) : order[i] # d)

\* What the claim states of one acquired hauler that is offered the targets.
DispatchedByRatio(h, targets) ==
    LET selected == RoundUp(cargo, targets, FreeCapacity(h), 0)
        total == SumUnits(cargo, selected)
    IN  /\ SumUnits(cargo, OrderOf(h)) <= FreeCapacity(h)
        /\ HasOrder(h) <=> (100 * total >= 75 * FreeCapacity(h))
        /\ HasOrder(h) => OrderOf(h) = selected /\ RowView(locks, h).controller = HAULERS
        /\ ~HasOrder(h) => RowView(locks, h).controller = NULL

\* C23: in dispatch_haulers the cargo of the drones selected for an acquired
\* hauler never exceeds its free capacity; the order is committed if and only
\* if that total is at least 0.75 x the free capacity, and otherwise the hauler
\* is released and the next candidate is tried.  A free capacity of 40 with
\* drones holding 18 and 10 gives 28 < 30: no order.
C23_DispatchByHaulRatio ==
    /\ last.op = "dispatch" =>
          LET h1 == DispatchCandidates[1]
              h2 == DispatchCandidates[2]
              left == LeftAfter(last.targets, OrderOf(h1))
          IN  /\ ~RowView(locks, h1).blocked => DispatchedByRatio(h1, last.targets)
              /\ RowView(locks, h1).blocked => ~HasOrder(h1)
              /\ left # <<>> => DispatchedByRatio(h2, left)
              /\ left = <<>> => ~HasOrder(h2)
              /\ last.ret <=> LeftAfter(left, OrderOf(h2)) = <<>>
    /\ LET K == [d \in {"E1", "E2"} |-> IF d = "E1" THEN 18 ELSE 10]
           selected == RoundUp(K, <<"E1", "E2">>, 40, 0)
       IN  /\ selected = <<"E1", "E2">>
           /\ SumUnits(K, selected) = 28
           /\ below_min_haul_ratio(SumUnits(K, selected), 40)

\* The first hauler was acquired and released for too small a yield, and the
\* order went to the second one.
C23_Witness ==
    /\ last.op = "dispatch"
    /\ ~RowView(locks, "H1").blocked
    /\ ~HasOrder("H1")
    /\ RowView(locks, "H1").controller = NULL
    /\ HasOrder("T2")
    /\ SumUnits(cargo, OrderOf("T2")) > 0

-----------------------------------------------------------------------------
(* F_nav.py: the path planner *)

\* round(d) of Python for a distance d counted in halves: a half goes to the
\* even neighbour.
round(d) ==
    IF d % 2 = 0 THEN d \div 2
    ELSE IF (d \div 2) % 2 = 0 THEN d \div 2 ELSE (d \div 2) + 1

\* Every flight is free: the tank reaches every node.
get_fuel_required_none(wp1, wp2, flightmode) == 0

\* get_fuel_required(wp1, wp2, flightmode)
get_fuel_required(wp1, wp2, flightmode) ==
    LET d == wp_distance(wp1, wp2)
    IN  IF flightmode = "DRIFT" THEN 1
        ELSE IF flightmode = "BURN" THEN 2 * round(d)
        ELSE round(d)

\* burncap = fuelcap: a full tank is taken to be enough to burn.
burncap_full_tank(fuelcap) == fuelcap

\* burncap = math.floor(fuelcap / 2.0) - 1.0
burncap(fuelcap) == (fuelcap \div 2) - 1

\* A hop of a path: (waypoint, flightmode, distance), the distance in halves.
Hop(wp, flightmode, dist) == [wp |-> wp, flightmode |-> flightmode, dist |-> dist]

\* flightmode = "BURN" if dst_dist < burncap: also to where no fuel is sold.
direct_flightmode_any_dst(dst_dist, fuelcap, dst, fuel_nodes) ==
    IF dst_dist < 2 * burncap(fuelcap) THEN "BURN" ELSE "CRUISE"

\* flightmode = "BURN" if ((dst_dist < burncap) and dst in fuel_nodes) else "CRUISE"
direct_flightmode(dst_dist, fuelcap, dst, fuel_nodes) ==
    IF dst_dist < 2 * burncap(fuelcap) /\ dst \in fuel_nodes THEN "BURN" ELSE "CRUISE"

\* if wp_distance(next_node, dst) >= dst_dist: return list()
no_progress(next_node, dst, dst_dist) == wp_distance(next_node, dst) >= dst_dist

RECURSIVE PathFrom(_, _, _, _, _, _)
\* The loop "while True" of get_path.  sorted(reachable, key=distance to dst)[0]
\* is any of the reachable nodes nearest to dst: the order of list(set(nodes))
\* decides between equals, so the result is the set of the paths it can give.
PathFrom(cur_node, dst, nodes, fuel_nodes, fuelcap, path) ==
    LET dst_dist == wp_distance(cur_node, dst)
    IN  IF dst_dist < 2 * fuelcap
        THEN {Append(path, Hop(dst, direct_flightmode(dst_dist, fuelcap, dst, fuel_nodes),
                               dst_dist))}
        ELSE LET reachable == {wp \in nodes :
                                  get_fuel_required(cur_node, wp, "CRUISE") < fuelcap}
                 nearest == {wp \in reachable : \A v \in reachable :
                                wp_distance(wp, dst) <= wp_distance(v, dst)}
             IN  IF reachable = {} THEN {<<>>}
                 ELSE UNION {
                        IF no_progress(next_node, dst, dst_dist) THEN {<<>>}
                        ELSE LET next_hop_dist == wp_distance(cur_node, next_node)
                                 flightmode == IF next_hop_dist < 2 * burncap(fuelcap)
                                               THEN "BURN" ELSE "CRUISE"
                             IN  PathFrom(next_node, dst, nodes \ {cur_node}, fuel_nodes,
                                          fuelcap,
                                          Append(path, Hop(next_node, flightmode,
                                                           next_hop_dist)))
                        : next_node \in nearest}

\* get_path(ship, src, dst): the ship is given by its fuel capacity and its
\* role, fuel_nodes are the known fuel stops of its system.
get_path(ship, src, dst, fuel_nodes) ==
    LET fuelcap == ship.capacity - 1
    IN  IF fuelcap < 1
        THEN IF ship.role = "SATELLITE"
             THEN {<<Hop(dst, "BURN", wp_distance(src, dst))>>}
             ELSE {<<>>}
        ELSE PathFrom(src, dst, {src, dst} \cup fuel_nodes, fuel_nodes, fuelcap, <<>>)

\* 'ship.FUEL'.capacity and registration.role of the ships that ask for a path.
FuelCapacities == {0, 1, 3, 5, 8, 101}
PlanShips == [capacity : FuelCapacities, role : {"SATELLITE", "HAULER"}]
\* _get_known_fuel_stops(system): the markets known to sell fuel.
FuelStops == SUBSET {"C1", "F1", "G1", "K1"}

\* path = get_path(ship, src, dst), asked for once.
Plan(ship, src, dst, fuel_nodes) ==
    /\ last.op = "init"
    /\ \E path \in get_path(ship, src, dst, fuel_nodes) :
           last' = [op |-> "plan", ship |-> ship, src |-> src, dst |-> dst,
                    fuel_nodes |-> fuel_nodes, path |-> path]
    /\ UNCHANGED <<locks, requests, now, tasks, cargo, marked_drones, stopped, trader>>
    /\ UNCHANGED cache

NextPlan ==
    \E ship \in PlanShips, src \in Waypoints, dst \in Waypoints, fuel_nodes \in FuelStops :
        Plan(ship, src, dst, fuel_nodes)

SpecPlan == Init /\ [][NextPlan]_vars

\* Fuel a hop needs in its own flight mode.
HopFuel(hop) == IF hop.flightmode = "BURN" THEN 2 * round(hop.dist) ELSE round(hop.dist)

EndsAtDst(path, dst) == path # <<>> => path[Len(path)].wp = dst

\* C24 as stated: a path is empty, or its last hop ends at dst and every hop
\* needs at most fuelCap = capacity - 1 units of fuel, for ships of every role,
\* the SATELLITE without fuel included.
C24_EveryHopWithinFuelCap ==
    last.op = "plan" =>
        /\ EndsAtDst(last.path, last.dst)
        /\ \A i \in 1..Len(last.path) : HopFuel(last.path[i]) <= last.ship.capacity - 1

\* C24 as the planner has it: a path is empty, or its last hop ends at dst; for
\* a ship with fuelCap >= 1 every hop needs at most fuelCap units of fuel; for
\* fuelCap < 1 only a SATELLITE gets a path, the single hop (dst, BURN, dist),
\* whatever fuel that hop would need.
C24_HopsWithinFuelCapUnlessSatellite ==
    last.op = "plan" =>
        /\ EndsAtDst(last.path, last.dst)
        /\ last.ship.capacity - 1 >= 1 =>
              \A i \in 1..Len(last.path) :
                  HopFuel(last.path[i]) <= last.ship.capacity - 1
        /\ last.ship.capacity - 1 < 1 =>
              IF last.ship.role = "SATELLITE"
              THEN last.path = <<Hop(last.dst, "BURN", wp_distance(last.src, last.dst))>>
              ELSE last.path = <<>>

\* A path of two hops, the first a burn to a fuel stop, was planned.
C24_Witness ==
    /\ last.op = "plan"
    /\ Len(last.path) = 2
    /\ last.path[1].flightmode = "BURN"
    /\ last.path[1].dist > 0
    /\ last.path[2].wp = last.dst

\* C25 as stated: for every distance d = dist(src, dst) with d <= fuelCap, d =
\* fuelCap included, the plan is the single hop (dst, mode, d), with mode BURN
\* exactly when d <= burnCap (d = burnCap included) and dst is a fuel stop.
C25_DirectHopUpToFuelCap ==
    last.op = "plan" =>
        LET d == wp_distance(last.src, last.dst)
            fuelCap == last.ship.capacity - 1
            burnCap == (fuelCap \div 2) - 1
        IN  d <= 2 * fuelCap =>
                last.path = <<Hop(last.dst,
                                  IF d <= 2 * burnCap /\ last.dst \in last.fuel_nodes
                                  THEN "BURN" ELSE "CRUISE",
                                  d)>>

\* C25 as the planner has it: for every distance d = dist(src, dst) with
\* d < fuelCap the plan is the single hop (dst, mode, d), with mode BURN exactly
\* when d < burnCap and dst is a fuel stop, CRUISE otherwise; fuelCap 100 and
\* burnCap 49 give BURN for 40 to a fuel stop and CRUISE for 60.
C25_DirectHopBelowFuelCap ==
    /\ last.op = "plan" =>
          LET d == wp_distance(last.src, last.dst)
              fuelCap == last.ship.capacity - 1
              burnCap == (fuelCap \div 2) - 1
          IN  d < 2 * fuelCap =>
                  last.path = <<Hop(last.dst,
                                    IF d < 2 * burnCap /\ last.dst \in last.fuel_nodes
                                    THEN "BURN" ELSE "CRUISE",
                                    d)>>
    /\ burncap(101 - 1) = 49
    /\ get_path([capacity |-> 101, role |-> "HAULER"], "A1", "K1", {"K1"})
          = {<<Hop("K1", "BURN", 80)>>}
    /\ get_path([capacity |-> 101, role |-> "HAULER"], "A1", "L1", {"K1"})
          = {<<Hop("L1", "CRUISE", 120)>>}

\* A destination half a unit inside the fuel cap was planned as one cruise hop,
\* though fuel is sold there.
C25_Witness ==
    /\ last.op = "plan"
    /\ wp_distance(last.src, last.dst) = 2 * (last.ship.capacity - 1) - 1
    /\ last.dst \in last.fuel_nodes
    /\ last.path = <<Hop(last.dst, "CRUISE", wp_distance(last.src, last.dst))>>

\* Where the hop k of a path starts.
HopStart(path, src, k) == IF k = 1 THEN src ELSE path[k - 1].wp

\* The greedy step at src finds nothing: dst is out of direct range, and no node
\* that the tank reaches is strictly closer to dst than src.
StuckAt(ship, src, dst, fuel_nodes) ==
    /\ ship.capacity - 1 >= 1
    /\ ~(wp_distance(src, dst) < 2 * (ship.capacity - 1))
    /\ ~\E wp \in {src, dst} \cup fuel_nodes :
           /\ get_fuel_required(src, wp, "CRUISE") < ship.capacity - 1
           /\ wp_distance(wp, dst) < wp_distance(src, dst)

PlanStuckAtStart ==
    /\ last.op = "plan"
    /\ StuckAt(last.ship, last.src, last.dst, last.fuel_nodes)
    /\ \E wp \in last.fuel_nodes \ {last.src} :
           get_fuel_required(last.src, wp, "CRUISE") < last.ship.capacity - 1
    /\ last.path = <<>>

-----------------------------------------------------------------------------
(* F_nav.py: the cache of the navigation of a ship; scripts.py: navigate *)

\* The ship that navigates: a hauler with a tank of 8, in a system where one
\* market is known to sell fuel.
NavShip == "T1"
NavFuel == [capacity |-> 8, role |-> "HAULER"]
KnownFuelStops == {"C1"}
\* The waypoints it is sent to: next door, and one it reaches in two hops.
Destinations == {"A1", "C1", "J1"}
\* Seconds a hop takes, and the last clock value explored.
FlightTime == 1
MaxNavNow == 3

\* No nav: what a failed read gives (None).
NoNav == [symbol |-> NULL, waypointSymbol |-> NULL, status |-> NULL, arrival |-> 0]

\* GET /my/ships/{ship}/nav at time t: a ship whose arrival has passed is in orbit.
ApiNav(Rm, t, ship) ==
    LET n == Rm.nav[ship]
    IN  IF n.status = "IN_TRANSIT" /\ n.arrival <= t
        THEN [n EXCEPT !.status = "IN_ORBIT"] ELSE n

\* _ship_nav_cache(ship): any row of the ship, whatever its arrival.
ship_nav_cache_any_row(N, t, ship) ==
    LET sn == SelectSeq(N, LAMBDA r : r.symbol = ship)
    IN  IF Len(sn) > 0 THEN sn[1] ELSE NoNav

\* _ship_nav_cache(ship): the row of the ship, unless it shows IN_TRANSIT with
\* ts_delta_seconds(arrival) <= 0; NULL stands for None.
ship_nav_cache(N, t, ship) ==
    LET sn == SelectSeq(N, LAMBDA r : r.symbol = ship)
    IN  IF Len(sn) > 0 /\ ~(sn[1].status = "IN_TRANSIT" /\ sn[1].arrival - t <= 0)
        THEN sn[1] ELSE NoNav

\* _refresh_ship_nav(ship, nav): with nav NoNav the API is asked, and nothing is
\* written when the request fails; write_data(mode='update', key=['symbol']).
refresh_ship_nav(st, t, ship, nav, api_ok) ==
    IF nav.waypointSymbol = NULL /\ ~api_ok THEN [ret |-> FALSE, st |-> st]
    ELSE LET n == IF nav.waypointSymbol = NULL THEN ApiNav(st.remote, t, ship) ELSE nav
             row == [symbol |-> ship, waypointSymbol |-> n.waypointSymbol,
                     status |-> n.status, arrival |-> n.arrival]
         IN  [ret |-> TRUE,
              st |-> [st EXCEPT !.nav_rows =
                        Append(SelectSeq(st.nav_rows, LAMBDA r : r.symbol # ship), row)]]

\* get_ship_nav(ship): refreshed tells that the cache missed.
get_ship_nav(st, t, ship, api_ok) ==
    LET sn == ship_nav_cache(st.nav_rows, t, ship)
    IN  IF sn.symbol # NULL THEN [ret |-> sn, st |-> st, refreshed |-> FALSE]
        ELSE LET r == refresh_ship_nav(st, t, ship, NoNav, api_ok)
             IN  [ret |-> ship_nav_cache(r.st.nav_rows, t, ship), st |-> r.st,
                  refreshed |-> TRUE]

\* get_transit_time_seconds(ship): False, which no loop takes for > 0, is 0 here.
get_transit_time_seconds(st, t, ship, api_ok) ==
    LET nav == get_ship_nav(st, t, ship, api_ok)
    IN  [ret |-> IF nav.ret.symbol = NULL THEN 0
                 ELSE IF nav.ret.status # "IN_TRANSIT" THEN 0
                 ELSE Max(0, nav.ret.arrival - t),
         st |-> nav.st]

\* io.update_records('ship.NAV', {'symbol': ship, 'status': new_status}, ['symbol'])
update_nav_status(N, ship, status) ==
    [i \in 1..Len(N) |-> IF N[i].symbol = ship THEN [N[i] EXCEPT !.status = status]
                         ELSE N[i]]

\* dock_ship / orbit_ship: raised tells that the nav read gave None and the
\* lookup of its status raised.  The API refuses a ship in transit.
set_ship_status(st, t, ship, status, api_ok) ==
    LET nav == get_ship_nav(st, t, ship, api_ok)
    IN  IF nav.ret.symbol = NULL THEN [ret |-> FALSE, raised |-> TRUE, st |-> nav.st]
        ELSE IF nav.ret.status = status
        THEN [ret |-> TRUE, raised |-> FALSE, st |-> nav.st]
        ELSE IF ~api_ok \/ ApiNav(nav.st.remote, t, ship).status = "IN_TRANSIT"
        THEN [ret |-> FALSE, raised |-> FALSE, st |-> nav.st]
        ELSE [ret |-> TRUE, raised |-> FALSE,
              st |-> [nav.st EXCEPT
                        !.remote.nav[ship].status = status,
                        !.nav_rows = update_nav_status(nav.st.nav_rows, ship, status)]]

dock_ship(st, t, ship, api_ok) == set_ship_status(st, t, ship, "DOCKED", api_ok)
orbit_ship(st, t, ship, api_ok) == set_ship_status(st, t, ship, "IN_ORBIT", api_ok)

\* refuel_ship(ship): docks and asks for fuel; the tank is not part of the model.
refuel_ship(st, t, ship, api_ok) == dock_ship(st, t, ship, api_ok)

\* navigate_in_system(ship, waypoint, flightmode): the API takes the order
\* (accepted) or not; a failed ship request has no 'data' and raises.
navigate_in_system(st, t, ship, waypoint, api_ok, accepted) ==
    IF ~api_ok THEN [ret |-> FALSE, raised |-> TRUE, st |-> st]
    ELSE IF ApiNav(st.remote, t, ship).status = "IN_TRANSIT"
    THEN [ret |-> FALSE, raised |-> FALSE, st |-> st]
    ELSE IF ApiNav(st.remote, t, ship).waypointSymbol = waypoint
    THEN [ret |-> FALSE, raised |-> FALSE, st |-> st]
    ELSE Bind(orbit_ship(st, t, ship, api_ok), LAMBDA o :
           IF o.raised THEN o
           ELSE IF ~accepted THEN [ret |-> FALSE, raised |-> FALSE, st |-> o.st]
           ELSE LET nav == [waypointSymbol |-> waypoint, status |-> "IN_TRANSIT",
                            arrival |-> t + FlightTime]
                IN  [ret |-> TRUE, raised |-> FALSE,
                     st |-> refresh_ship_nav([o.st EXCEPT !.remote.nav[ship] = nav],
                                             t, ship, nav, api_ok).st])

\* The early return taken by a docked ship only.
already_there_if_docked(cur_nav, destination_wp) ==
    destination_wp = cur_nav.waypointSymbol /\ cur_nav.status = "DOCKED"

\* if (destination_wp == cur_nav['waypointSymbol']) and
\*    (not cur_nav['status'] == 'IN_TRANSIT'): return True
already_there(cur_nav, destination_wp) ==
    destination_wp = cur_nav.waypointSymbol /\ cur_nav.status # "IN_TRANSIT"

\* The end of navigate: return get_ship_waypoint(ship) == destination_wp
NavigateReturns(st, t, ship, destination_wp, calls, api_ok) ==
    LET nav == get_ship_nav(st, t, ship, api_ok)
    IN  [pc |-> "done",
         ret |-> nav.ret.symbol # NULL /\ nav.ret.waypointSymbol = destination_wp,
         raised |-> nav.ret.symbol = NULL,
         st |-> nav.st, path |-> <<>>, calls |-> calls]

\* for wp, flmode, dist in path: refuel_ship(ship); navigate_in_system(...), up
\* to "await await_navigation(ship)" (pc "awaiting") or to the return of
\* navigate.  calls counts the refuel and navigate calls issued.
FollowPath(st, t, ship, destination_wp, path, calls, api_ok, accepted) ==
    IF path = <<>> THEN NavigateReturns(st, t, ship, destination_wp, calls, api_ok)
    ELSE Bind(refuel_ship(st, t, ship, api_ok), LAMBDA f :
           IF f.raised
           THEN [pc |-> "done", ret |-> FALSE, raised |-> TRUE, st |-> f.st, path |-> <<>>,
                 calls |-> calls + 1]
           ELSE Bind(navigate_in_system(f.st, t, ship, path[1].wp, api_ok, accepted),
                  LAMBDA n :
                    IF n.raised
                    THEN [pc |-> "done", ret |-> FALSE, raised |-> TRUE, st |-> n.st, path |-> <<>>,
                          calls |-> calls + 2]
                    ELSE IF n.ret
                    THEN [pc |-> "awaiting", ret |-> FALSE, raised |-> FALSE, st |-> n.st,
                          path |-> Tail(path), calls |-> calls + 2]
                    ELSE NavigateReturns(n.st, t, ship, destination_wp, calls + 2,
                                         api_ok)))

\* navigate(ship, destination_wp) from the call to its first await or its
\* return, along one of the paths get_path can give.
navigate(st, t, ship, destination_wp, path, api_ok, accepted) ==
    Bind(get_ship_nav(st, t, ship, api_ok), LAMBDA cur_nav :
      IF cur_nav.ret.symbol = NULL
      THEN [pc |-> "done", ret |-> FALSE, raised |-> TRUE, st |-> cur_nav.st,
            path |-> <<>>, calls |-> 0]
      ELSE IF already_there(cur_nav.ret, destination_wp)
      THEN [pc |-> "done", ret |-> TRUE, raised |-> FALSE, st |-> cur_nav.st,
            path |-> <<>>, calls |-> 0]
      ELSE FollowPath(cur_nav.st, t, ship, destination_wp, path, 0, api_ok, accepted))

\* The ship is docked at A1; nothing has been read into the cache.
InitNav ==
    /\ locks = <<>>
    /\ requests = <<>>
    /\ now = 0
    /\ last = [op |-> "init"]
    /\ tasks = <<>>
    /\ cargo = [s \in ExtractionFleet |-> 0]
    /\ marked_drones = {}
    /\ stopped = {}
    /\ trader = trader_start
    /\ nav_rows = <<>>
    /\ cargo_rows = <<>>
    /\ remote = [nav |-> [s \in {NavShip} |->
                            [waypointSymbol |-> "A1", status |-> "DOCKED", arrival |-> 0]],
                 cargo |-> <<>>]

NavState == [nav_rows |-> nav_rows, remote |-> remote]

\* The nav of the ship as the API has it now.
NavNow == ApiNav(remote, now, NavShip)

NavTick ==
    /\ now < MaxNavNow
    /\ now' = now + 1
    /\ UNCHANGED <<locks, requests, last, tasks, cargo, marked_drones, stopped, trader>>
    /\ UNCHANGED cache

\* A controller reads the nav of the ship.
GetShipNav(api_ok) ==
    /\ \E r \in {get_ship_nav(NavState, now, NavShip, api_ok)} :
          /\ nav_rows' = r.st.nav_rows
          /\ remote' = r.st.remote
          /\ last' = [op |-> "get_ship_nav", ret |-> r.ret, refreshed |-> r.refreshed,
                      cached |-> ship_nav_cache_any_row(nav_rows, now, NavShip),
                      api |-> NavNow, api_ok |-> api_ok, at |-> now]
    /\ UNCHANGED <<locks, requests, now, tasks, cargo, marked_drones, stopped, trader,
                   cargo_rows>>

\* The outcome of a segment of navigate becomes the state: the task waits for
\* the ship to arrive, or navigate has returned.
NavigateYields(r, destination_wp, was_there) ==
    /\ nav_rows' = r.st.nav_rows
    /\ remote' = r.st.remote
    /\ tasks' = IF r.pc = "awaiting"
                THEN <<[ship |-> NavShip, controller |-> NULL, kind |-> "navigate",
                        pc |-> "awaiting",
                        targets |-> [destination_wp |-> destination_wp, path |-> r.path,
                                     calls |-> r.calls, was_there |-> was_there],
                        tracked |-> FALSE]>>
                ELSE <<>>
    /\ last' = IF r.pc = "done"
               THEN [op |-> "navigate", destination_wp |-> destination_wp,
                     ret |-> r.ret, raised |-> r.raised, calls |-> r.calls,
                     was_there |-> was_there]
               ELSE [op |-> "navigating"]
    /\ UNCHANGED <<locks, requests, now, cargo, marked_drones, stopped, trader,
                   cargo_rows>>

\* await navigate(ship, destination_wp) is called.  was_there tells that the
\* ship was at the destination and not in transit.
Navigate(destination_wp, api_ok, accepted) ==
    /\ tasks = <<>>
    /\ LET cur == ship_nav_cache_any_row(nav_rows, now, NavShip)
           src == IF cur.symbol = NULL THEN NavNow.waypointSymbol ELSE cur.waypointSymbol
       IN  \E path \in get_path(NavFuel, src, destination_wp, KnownFuelStops) :
           \E r \in {navigate(NavState, now, NavShip, destination_wp, path, api_ok,
                              accepted)} :
               NavigateYields(r, destination_wp,
                              NavNow.waypointSymbol = destination_wp
                                  /\ NavNow.status # "IN_TRANSIT")

\* await_navigation(ship) finds no time left: the next hop, or the return.
NavigateWakes(api_ok, accepted) ==
    /\ Len(tasks) = 1
    /\ tasks[1].pc = "awaiting"
    /\ \E eta \in {get_transit_time_seconds(NavState, now, NavShip, api_ok)} :
          /\ eta.ret = 0
          /\ \E r \in {FollowPath(eta.st, now, NavShip, tasks[1].targets.destination_wp,
                                  tasks[1].targets.path, tasks[1].targets.calls,
                                  api_ok, accepted)} :
                 NavigateYields(r, tasks[1].targets.destination_wp,
                                tasks[1].targets.was_there)

NextNav ==
    \/ NavTick
    \/ \E api_ok \in BOOLEAN : GetShipNav(api_ok)
    \/ \E destination_wp \in Destinations, api_ok \in BOOLEAN, accepted \in BOOLEAN :
          Navigate(destination_wp, api_ok, accepted)
    \/ \E api_ok \in BOOLEAN, accepted \in BOOLEAN : NavigateWakes(api_ok, accepted)

SpecNav == InitNav /\ [][NextNav]_vars

\* The one hop that get_path gives from a waypoint to itself.
HopToSelf(a) == Hop(a, direct_flightmode(0, NavFuel.capacity - 1, a, KnownFuelStops), 0)

Stale(row, t) == row.symbol # NULL /\ row.status = "IN_TRANSIT" /\ row.arrival <= t

\* C28: get_ship_nav never returns a record that is IN_TRANSIT with an arrival
\* that has passed; when the cached row was such a record or was missing, the
\* API was asked, and what it answered is the row of the store and the value
\* returned; when the API did not answer, no record is returned.
C28_NavReadNeverStale ==
    last.op = "get_ship_nav" =>
        /\ ~Stale(last.ret, last.at)
        /\ (last.cached.symbol = NULL \/ Stale(last.cached, last.at)) =>
              /\ last.refreshed
              /\ last.api_ok =>
                    /\ last.ret = [symbol |-> NavShip,
                                   waypointSymbol |-> last.api.waypointSymbol,
                                   status |-> last.api.status,
                                   arrival |-> last.api.arrival]
                    /\ ship_nav_cache_any_row(nav_rows, last.at, NavShip) = last.ret
              /\ ~last.api_ok => last.ret = NoNav
        /\ (last.cached.symbol # NULL /\ ~Stale(last.cached, last.at)) =>
              /\ ~last.refreshed
              /\ last.ret = last.cached

\* The cached row said IN_TRANSIT with an arrival in the past; the read
\* returned the ship in orbit, and so says the store.
C28_Witness ==
    /\ last.op = "get_ship_nav"
    /\ Stale(last.cached, last.at)
    /\ last.api_ok
    /\ last.ret.status = "IN_ORBIT"
    /\ ship_nav_cache_any_row(nav_rows, now, NavShip).status = "IN_ORBIT"

-----------------------------------------------------------------------------
(* F_trade.py: the cache of the cargo of a ship *)

\* Two ships that hold cargo, and the goods they meet: the miner extracts,
\* buys, sells and jettisons, and the hauler takes IRON from it or gives it back.
CargoShips == {"E2", "T2"}
Miner == "E2"
Goods == <<"IRON", "COPPER">>
\* The most units one purchase, sale, transfer or jettison moves.
MaxUnits == 2
\* The largest count of units the cache is followed to.
MaxCached == 3
\* The most rows a ship has in 'ship.CARGO': DUMMY and one per good.
MaxCargoRows == 3

RECURSIVE InventoryUnits(_)
InventoryUnits(inv) == IF inv = <<>> THEN 0 ELSE inv[1].units + InventoryUnits(Tail(inv))

\* GET /my/ships/{ship}/cargo: the goods held, with their total.
ApiCargo(Rm, ship) ==
    LET inventory == SelectSeq([i \in 1..Len(Goods) |->
                                   [symbol |-> Goods[i], units |-> Rm.cargo[ship][Goods[i]]]],
                               LAMBDA g : g.units > 0)
    IN  [capacity |-> Capacity[ship], units |-> InventoryUnits(inventory),
         inventory |-> inventory]

\* io.update_records_custom(query) on 'ship.CARGO': only a statement that
\* starts with UPDATE is executed; applied is the table after the statement.
update_cargo_records_custom(R, statement, applied) ==
    IF statement # "UPDATE" THEN R ELSE applied

\* io.write_data('ship.CARGO', row, mode="update", key=["shipSymbol", "symbol"]):
\* the row of the key is deleted and the new one appended.
write_cargo_row(R, row) ==
    Append(SelectSeq(R, LAMBDA r : ~(r.shipSymbol = row.shipSymbol
                                        /\ r.symbol = row.symbol)), row)

RECURSIVE write_cargo_rows(_, _, _)
write_cargo_rows(R, base, inventory) ==
    IF inventory = <<>> THEN R
    ELSE write_cargo_rows(
            write_cargo_row(R, [shipSymbol |-> base.shipSymbol,
                                capacity |-> base.capacity,
                                totalUnits |-> base.totalUnits,
                                symbol |-> inventory[1].symbol,
                                units |-> inventory[1].units]),
            base, Tail(inventory))

\* _refresh_cargo(ship, cargo) with a Cargo object.
refresh_cargo(R, ship, new_cargo) ==
    LET R0 == update_cargo_records_custom(R, "DELETE",
                                          SelectSeq(R, LAMBDA r : r.shipSymbol # ship))
        base == [shipSymbol |-> ship, capacity |-> new_cargo.capacity,
                 totalUnits |-> new_cargo.units]
    IN  write_cargo_rows(R0, base,
                         <<[symbol |-> "DUMMY", units |-> 0]>> \o new_cargo.inventory)

\* _refresh_cargo(ship): the Cargo object comes from the API; nothing is
\* written when the request fails.
refresh_cargo_api(R, Rm, ship, api_ok) ==
    IF ~api_ok THEN R ELSE refresh_cargo(R, ship, ApiCargo(Rm, ship))

\* SELECT capacity, totalUnits as units FROM 'ship.CARGO' group by shipSymbol
\* having shipSymbol = ship: capacity and totalUnits are bare columns of the
\* group, taken from a row SQLite chooses (pick).
cargo_base(R, ship, pick) ==
    LET rows == SelectSeq(R, LAMBDA r : r.shipSymbol = ship)
    IN  IF Len(rows) = 0 THEN [found |-> FALSE, capacity |-> 0, units |-> 0]
        ELSE [found |-> TRUE, capacity |-> rows[Min(pick, Len(rows))].capacity,
              units |-> rows[Min(pick, Len(rows))].totalUnits]

\* get_ship_cargo(ship): ok FALSE stands for the return of False; rows is the
\* table after the refresh it may have made.
get_ship_cargo(R, Rm, ship, pick, api_ok) ==
    LET b == cargo_base(R, ship, pick)
        R1 == IF ~b.found \/ b.units > b.capacity
              THEN refresh_cargo_api(R, Rm, ship, api_ok) ELSE R
        base == cargo_base(R1, ship, pick)
    IN  [ok |-> base.found, capacity |-> base.capacity, units |-> base.units,
         inventory |-> SelectSeq(R1, LAMBDA r : r.shipSymbol = ship
                                                   /\ r.symbol # "DUMMY"),
         rows |-> R1]

\* UPDATE 'ship.CARGO' SET totalUnits = new_total WHERE shipSymbol = ship
set_total_units(R, ship, new_total) ==
    [i \in 1..Len(R) |-> IF R[i].shipSymbol = ship
                         THEN [R[i] EXCEPT !.totalUnits = new_total] ELSE R[i]]

\* _add_cargo(ship, {'symbol': good, 'units': units}): the table afterwards.
\* When get_ship_cargo returned False the lookup of its units raises.
add_cargo(R, Rm, ship, good, units, pick, api_ok) ==
    Bind(get_ship_cargo(R, Rm, ship, pick, api_ok), LAMBDA cur_cargo :
      IF ~cur_cargo.ok THEN cur_cargo.rows
      ELSE LET held == SelectSeq(cur_cargo.inventory, LAMBDA i : i.symbol = good)
               new_units == units + (IF Len(held) > 0 THEN held[1].units ELSE 0)
               new_total == units + cur_cargo.units
               to_write == [shipSymbol |-> ship, capacity |-> cur_cargo.capacity,
                            totalUnits |-> new_total, symbol |-> good,
                            units |-> new_units]
               R2 == IF new_total >= 0 /\ new_units >= 0
                     THEN Bind(write_cargo_row(cur_cargo.rows, to_write), LAMBDA W :
                            update_cargo_records_custom(W, "UPDATE",
                                                  set_total_units(W, ship, new_total)))
                     ELSE cur_cargo.rows
           IN  update_cargo_records_custom(R2, "DELETE",
                   SelectSeq(R2, LAMBDA r : ~(r.units < 1 /\ r.symbol # "DUMMY"))))

\* No statement looks at the order between the rows of two ships: the table is
\* kept ship by ship, each ship's rows in the order of their insertion.
ByShip(R) ==
    SelectSeq(R, LAMBDA r : r.shipSymbol = Miner)
        \o SelectSeq(R, LAMBDA r : r.shipSymbol # Miner)

\* The holds are empty and nothing has been read into the cache.
InitCargo ==
    /\ locks = <<>>
    /\ requests = <<>>
    /\ now = 0
    /\ last = [op |-> "init"]
    /\ tasks = <<>>
    /\ cargo = [s \in ExtractionFleet |-> 0]
    /\ marked_drones = {}
    /\ stopped = {}
    /\ trader = trader_start
    /\ nav_rows = <<>>
    /\ cargo_rows = <<>>
    /\ remote = [nav |-> <<>>,
                 cargo |-> [s \in CargoShips |-> [g \in {"IRON", "COPPER"} |-> 0]]]

HeldBy(ship) == remote.cargo[ship]["IRON"] + remote.cargo[ship]["COPPER"]

\* The cached counts can drift from the hold without end; the model follows
\* them up to MaxCached.
CargoUnchanged ==
    /\ \A i \in 1..Len(cargo_rows') :
          cargo_rows'[i].totalUnits <= MaxCached /\ cargo_rows'[i].units <= MaxCached
    /\ UNCHANGED <<locks, requests, now, tasks, cargo, marked_drones, stopped, trader,
                   nav_rows>>

\* F_extract: the API answers an extraction or a siphon with the new cargo,
\* and the cache is refreshed with it.
Extract(ship, good) ==
    /\ HeldBy(ship) < Capacity[ship]
    /\ remote' = [remote EXCEPT !.cargo[ship][good] = @ + 1]
    /\ cargo_rows' = ByShip(refresh_cargo(cargo_rows, ship, ApiCargo(remote', ship)))
    /\ last' = [op |-> "extract", ship |-> ship]
    /\ CargoUnchanged

\* _purchase_cargo: the API sells what fits in the hold.
PurchaseCargo(ship, good, units, pick, api_ok) ==
    /\ HeldBy(ship) + units <= Capacity[ship]
    /\ remote' = [remote EXCEPT !.cargo[ship][good] = @ + units]
    /\ cargo_rows' = ByShip(add_cargo(cargo_rows, remote', ship, good, units, pick, api_ok))
    /\ last' = [op |-> "purchase", ship |-> ship]
    /\ CargoUnchanged

\* sell_cargo: the API buys what the ship holds.
SellCargo(ship, good, units, pick, api_ok) ==
    /\ remote.cargo[ship][good] >= units
    /\ remote' = [remote EXCEPT !.cargo[ship][good] = @ - units]
    /\ cargo_rows' = ByShip(add_cargo(cargo_rows, remote', ship, good, 0 - units, pick, api_ok))
    /\ last' = [op |-> "sell", ship |-> ship]
    /\ CargoUnchanged

\* jettison_cargo
JettisonCargo(ship, good, units, pick, api_ok) ==
    /\ remote.cargo[ship][good] >= units
    /\ remote' = [remote EXCEPT !.cargo[ship][good] = @ - units]
    /\ cargo_rows' = ByShip(add_cargo(cargo_rows, remote', ship, good, 0 - units, pick, api_ok))
    /\ last' = [op |-> "jettison", ship |-> ship]
    /\ CargoUnchanged

\* transfer_cargo: the cache of the source, then that of the sink.
TransferCargo(src_ship, sink_ship, good, units, pick, api_ok) ==
    /\ src_ship # sink_ship
    /\ remote.cargo[src_ship][good] >= units
    /\ HeldBy(sink_ship) + units <= Capacity[sink_ship]
    /\ remote' = [remote EXCEPT !.cargo[src_ship][good] = @ - units,
                                !.cargo[sink_ship][good] = @ + units]
    /\ cargo_rows' = ByShip(add_cargo(add_cargo(cargo_rows, remote', src_ship, good,
                                                0 - units, pick, api_ok),
                                      remote', sink_ship, good, units, pick, api_ok))
    /\ last' = [op |-> "transfer", ship |-> src_ship]
    /\ CargoUnchanged

\* A read of the cargo, which refreshes the cache when it misses.
GetShipCargo(ship, pick, api_ok) ==
    /\ cargo_rows' = ByShip(get_ship_cargo(cargo_rows, remote, ship, pick, api_ok).rows)
    /\ last' = [op |-> "get_ship_cargo", ship |-> ship]
    /\ UNCHANGED remote
    /\ CargoUnchanged

NextCargo ==
    \/ \E i \in 1..Len(Goods) : Extract(Miner, Goods[i])
    \/ \E i \in 1..Len(Goods), units \in 1..MaxUnits, pick \in 1..MaxCargoRows,
          api_ok \in BOOLEAN :
           \/ PurchaseCargo(Miner, Goods[i], units, pick, api_ok)
           \/ SellCargo(Miner, Goods[i], units, pick, api_ok)
           \/ JettisonCargo(Miner, Goods[i], units, pick, api_ok)
    \/ \E src_ship \in CargoShips, sink_ship \in CargoShips, units \in 1..MaxUnits,
          pick \in 1..MaxCargoRows, api_ok \in BOOLEAN :
           TransferCargo(src_ship, sink_ship, Goods[1], units, pick, api_ok)
    \/ \E ship \in CargoShips, pick \in 1..MaxCargoRows, api_ok \in BOOLEAN :
           GetShipCargo(ship, pick, api_ok)

SpecCargo == InitCargo /\ [][NextCargo]_vars

\* What a read of the cargo of the ship reports, for the row SQLite chooses.
Reported(ship, pick) == get_ship_cargo(cargo_rows, remote, ship, pick, TRUE)

\* C27: after every operation that changes the cargo cache, what
\* get_ship_cargo reports as the total units of a ship is the sum of the units
\* of the inventory rows it reports.
C27_TotalIsSumOfInventory ==
    last.op \in {"extract", "purchase", "sell", "jettison", "transfer"} =>
        \A ship \in CargoShips : \A pick \in 1..MaxCargoRows :
            Reported(ship, pick).units = InventoryUnits(Reported(ship, pick).inventory)

\* C35: after every cargo mutation the cache holds no row of a good with zero
\* units, and every ship that has rows in the cache has its sentinel row.
C35_NoZeroUnitRows ==
    last.op \in {"extract", "purchase", "sell", "jettison", "transfer"} =>
        /\ \A i \in 1..Len(cargo_rows) :
               cargo_rows[i].symbol # "DUMMY" => cargo_rows[i].units >= 1
        /\ \A i \in 1..Len(cargo_rows) :
               \E j \in 1..Len(cargo_rows) :
                   /\ cargo_rows[j].shipSymbol = cargo_rows[i].shipSymbol
                   /\ cargo_rows[j].symbol = "DUMMY"

-----------------------------------------------------------------------------
(* scripts.py: naive_trader and its execute_trade *)

\* CONTROLLER_ID = "NAIVE-TRADER-" + ship, and the priority of its lock.
NaiveTraderId == [s \in TradeFleet |-> IF s = "T1" THEN "NAIVE-TRADER-T1"
                                       ELSE "NAIVE-TRADER-T2"]
NaiveTraderPriority == 2

\* Each hauler runs naive_trader as a script of its own; tasks[i] is the
\* coroutine of the i-th: "top" at the head of the loop, "buying" and "selling"
\* inside execute_trade, "sleep" at the end of an iteration.  No ship has a
\* lock row yet.
InitNaive ==
    /\ locks = <<>>
    /\ requests = <<>>
    /\ now = 0
    /\ last = [op |-> "init"]
    /\ tasks = [i \in 1..2 |->
                  [ship |-> <<"T1", "T2">>[i], controller |-> NaiveTraderId[<<"T1", "T2">>[i]],
                   kind |-> "naive_trader", pc |-> "top", targets |-> <<>>,
                   tracked |-> FALSE]]
    /\ cargo = [s \in ExtractionFleet |-> 0]
    /\ marked_drones = {}
    /\ stopped = {}
    /\ trader = trader_start
    /\ nav_rows = <<>>
    /\ cargo_rows = <<>>
    /\ remote = remote_start

\* execute_trade returned and naive_trader goes on: release_ship(ship), then the
\* sleep that ends the iteration.
NaiveTradeReturns(i, step, ret) ==
    /\ locks' = release_ship(locks, tasks[i].ship, FALSE).locks
    /\ tasks' = [tasks EXCEPT ![i].pc = "sleep"]
    /\ last' = [op |-> "naive_trade", ship |-> tasks[i].ship, step |-> step, ret |-> ret,
                released |-> release_ship(locks, tasks[i].ship, FALSE).ret]

\* One iteration from the top of the loop: without a route the script sleeps;
\* with one it locks the ship and calls execute_trade, which returns False for
\* a hold that is not empty, and otherwise blocks the ship and starts to buy.
naive_trader(i, route_found, hold_empty) ==
    LET ship == tasks[i].ship
    IN  /\ tasks[i].kind = "naive_trader"
        /\ tasks[i].pc = "top"
        /\ IF ~route_found
           THEN /\ tasks' = [tasks EXCEPT ![i].pc = "sleep"]
                /\ last' = [op |-> "naive_trade", ship |-> ship, step |-> "no_route",
                            ret |-> FALSE, released |-> FALSE]
                /\ UNCHANGED locks
           ELSE \E L \in {lock_ship(locks, ship, tasks[i].controller,
                                     NaiveTraderPriority).locks} :
                  IF ~hold_empty
                  THEN /\ locks' = release_ship(L, ship, FALSE).locks
                       /\ tasks' = [tasks EXCEPT ![i].pc = "sleep"]
                       /\ last' = [op |-> "naive_trade", ship |-> ship, step |-> "hold",
                                   ret |-> FALSE,
                                   released |-> release_ship(L, ship, FALSE).ret]
                  ELSE /\ locks' = set_ship_blocked_status(L, ship, TRUE).locks
                       /\ tasks' = [tasks EXCEPT ![i].pc = "buying"]
                       /\ last' = [op |-> "naive_trade", ship |-> ship, step |-> "block",
                                   ret |-> FALSE, released |-> FALSE]
        /\ UNCHANGED <<requests, now, cargo, marked_drones, stopped, trader>>
        /\ UNCHANGED cache

\* buy_from_market returns: a purchase that failed ends execute_trade with
\* False at once.
naive_trader_buy(i, buy) ==
    /\ tasks[i].kind = "naive_trader"
    /\ tasks[i].pc = "buying"
    /\ IF buy
       THEN /\ tasks' = [tasks EXCEPT ![i].pc = "selling"]
            /\ last' = [op |-> "naive_trade", ship |-> tasks[i].ship, step |-> "buy",
                        ret |-> FALSE, released |-> FALSE]
            /\ UNCHANGED locks
       ELSE NaiveTradeReturns(i, "buy", FALSE)
    /\ UNCHANGED <<requests, now, cargo, marked_drones, stopped, trader>>
    /\ UNCHANGED cache

\* sell_to_market returns: a sale that failed ends execute_trade with False at
\* once; after a sale the block is lifted and execute_trade returns True.
naive_trader_sell(i, sell) ==
    /\ tasks[i].kind = "naive_trader"
    /\ tasks[i].pc = "selling"
    /\ IF sell
       THEN /\ locks' = release_ship(set_ship_blocked_status(
                                        locks, tasks[i].ship, FALSE).locks,
                                     tasks[i].ship, FALSE).locks
            /\ tasks' = [tasks EXCEPT ![i].pc = "sleep"]
            /\ last' = [op |-> "naive_trade", ship |-> tasks[i].ship, step |-> "sell",
                        ret |-> TRUE, released |-> TRUE]
       ELSE NaiveTradeReturns(i, "sell", FALSE)
    /\ UNCHANGED <<requests, now, cargo, marked_drones, stopped, trader>>
    /\ UNCHANGED cache

\* await asyncio.sleep(interval_seconds) ends.
naive_trader_wakes(i) ==
    /\ tasks[i].kind = "naive_trader"
    /\ tasks[i].pc = "sleep"
    /\ tasks' = [tasks EXCEPT ![i].pc = "top"]
    /\ last' = [op |-> "naive_wake", ship |-> tasks[i].ship, step |-> "wake",
                ret |-> FALSE, released |-> FALSE]
    /\ UNCHANGED <<locks, requests, now, cargo, marked_drones, stopped, trader>>
    /\ UNCHANGED cache

NextNaive ==
    \/ \E i \in 1..Len(tasks), route_found \in BOOLEAN, hold_empty \in BOOLEAN :
           naive_trader(i, route_found, hold_empty)
    \/ \E i \in 1..Len(tasks), buy \in BOOLEAN : naive_trader_buy(i, buy)
    \/ \E i \in 1..Len(tasks), sell \in BOOLEAN : naive_trader_sell(i, sell)
    \/ \E i \in 1..Len(tasks) : naive_trader_wakes(i)

SpecNaive == InitNaive /\ [][NextNaive]_vars

\* C39: after every trade attempt of naive_trader, failed or not, the ship is
\* unblocked and released, its row (NULL, -1, false), before the next iteration.
C39_AttemptLeavesShipFree ==
    \A i \in 1..Len(tasks) :
        (tasks[i].kind = "naive_trader" /\ tasks[i].pc \in {"sleep", "top"})
            => RowView(locks, tasks[i].ship) = FreeRow

-----------------------------------------------------------------------------
(* controllers/system_market_intel.py: the probe manager *)

PROBE_MANAGER == "PROBE-MANAGER-X1"
BASE_PRIO_MGR_PROBES == 100
\* The markets of the system whose data can be out of date, and the queues
\* get_prioritised_markets can give for them.
MarketQueues == {<<>>, <<"B1">>, <<"D1">>, <<"F1">>, <<"B1", "D1">>, <<"D1", "B1">>,
                 <<"B1", "D1", "F1">>}

\* fleet[p]['market'] and what "await fleet[p]['task']" gives once the task is
\* done: "True", "False", or "raised" when the task ended with an exception.
MarketOf(T, controller, p) ==
    SelectSeq(Fleet(T, controller, "update_market"), LAMBDA t : t.ship = p)[1]
        .targets.market
ResultOf(T, controller, p) ==
    SelectSeq(Fleet(T, controller, "update_market"), LAMBDA t : t.ship = p)[1]
        .targets.result

\* F_nav.get_ship_waypoint(c) for every probe.
ProbeAt(N) == [c \in Probes |-> ship_nav_cache_any_row(N, 0, c).waypointSymbol]

\* assign_probe_to_market(candidates, fleet, market, controller, priority)
assign_probe_to_market(st, N, t, candidates, market, controller, priority) ==
    IF Len(candidates) < 1 THEN [ret |-> FALSE, st |-> st]
    ELSE LET probe == find_closest_hauler(candidates, market, ProbeAt(N))[1]
         IN  Bind(request_ship(st.locks, st.requests, t, probe, controller, priority),
                  LAMBDA acquired :
                    IF acquired.ret
                    THEN [ret |-> TRUE,
                          st |-> [st EXCEPT
                                    !.locks = acquired.locks,
                                    !.requests = acquired.requests,
                                    !.tasks = create_task(st.tasks, probe, controller,
                                                 "update_market",
                                                 [market |-> market, result |-> NULL])]]
                    ELSE [ret |-> FALSE,
                          st |-> [st EXCEPT !.locks = acquired.locks,
                                            !.requests = acquired.requests]])

RECURSIVE AwaitFinished(_, _, _, _)
\* dispatch_satellites: for p in finished_ships: result = await s['task'], which
\* raises what the task raised; a result that is not True is reported; the ship
\* is released unless the dispatcher is blocked.
AwaitFinished(r, finished, controller, blocked) ==
    IF finished = <<>> \/ r.raised THEN r
    ELSE LET p == Head(finished)
             result == ResultOf(r.st.tasks, controller, p)
         IN  IF result = "raised" THEN [r EXCEPT !.raised = TRUE]
             ELSE Bind([r EXCEPT
                          !.being_handled = IF result = "True"
                                            THEN @ \ {MarketOf(r.st.tasks, controller, p)}
                                            ELSE @,
                          !.reported = IF result = "True" THEN @ ELSE @ \cup {p},
                          !.st = IF blocked THEN @
                                 ELSE ReleaseFinished(@, <<p>>, controller,
                                                      "update_market")],
                       LAMBDA r1 : AwaitFinished(r1, Tail(finished), controller, blocked))

RECURSIVE dispatch_satellites(_, _, _, _, _, _)
\* dispatch_satellites(system, market_order, fleet, controller, priority):
\* r is [st, being_handled, raised, reported]; cleared is its return value.
dispatch_satellites(r, N, t, market_order, controller, priority) ==
    IF market_order = <<>> THEN [r |-> r, cleared |-> TRUE]
    ELSE IF market_order[1] \in r.being_handled
    THEN dispatch_satellites(r, N, t, Tail(market_order), controller, priority)
    ELSE LET market == market_order[1]
             probes == get_available_ships_in_systems(r.st.locks, {system}, "SATELLITE",
                                                      priority, controller)
             candidates == SelectSeq(probes, LAMBDA c :
                              ~\E i \in 1..Len(r.st.tasks) :
                                  /\ r.st.tasks[i].tracked
                                  /\ r.st.tasks[i].controller = controller
                                  /\ r.st.tasks[i].ship = c)
         IN  Bind(assign_probe_to_market(r.st, N, t, candidates, market, controller,
                                         priority),
                  LAMBDA assigned :
                    Bind(AwaitFinished(
                            [r EXCEPT !.st = assigned.st,
                                      !.being_handled = IF assigned.ret
                                                        THEN @ \cup {market} ELSE @],
                            get_finished_ships(assigned.st.tasks, controller,
                                               "update_market"),
                            controller, ~assigned.ret),
                         LAMBDA f :
                           IF f.raised \/ ~assigned.ret
                           THEN [r |-> f, cleared |-> FALSE]
                           ELSE dispatch_satellites(f, N, t, Tail(market_order),
                                                    controller, priority)))

RECURSIVE ReportFinished(_, _, _)
\* maintain_tradegood_data: "Release finished ships & report": a result False
\* counts as a failure; every finished ship is released and leaves the fleet.
ReportFinished(r, finished, controller) ==
    IF finished = <<>> \/ r.raised THEN r
    ELSE LET p == Head(finished)
             result == ResultOf(r.st.tasks, controller, p)
         IN  IF result = "raised" THEN [r EXCEPT !.raised = TRUE]
             ELSE Bind([r EXCEPT
                          !.reported = IF result = "False" THEN @ \cup {p} ELSE @,
                          !.released = IF release_ship(r.st.locks, p, FALSE).ret
                                       THEN @ \cup {p} ELSE @,
                          !.st = ReleaseFinished(@, <<p>>, controller, "update_market")],
                       LAMBDA r1 : ReportFinished(r1, Tail(finished), controller))

RECURSIVE ReleaseProbes(_, _)
\* except Exception: for s in fleet: fleet_resource_manager.release_ship(s)
ReleaseProbes(L, fleet) ==
    IF fleet = <<>> THEN L
    ELSE ReleaseProbes(release_ship(L, fleet[1].ship, FALSE).locks, Tail(fleet))

\* The probes are free, P1 at A1 and P2 at C1; the coroutine of the controller
\* is the first task, at the top of its loop.
InitIntel ==
    /\ locks = [i \in 1..2 |->
                  [shipSymbol |-> <<"P1", "P2">>[i], controller |-> NULL,
                   priority |-> -1, blocked |-> FALSE]]
    /\ requests = <<>>
    /\ now = 0
    /\ last = [op |-> "init"]
    /\ tasks = <<[ship |-> NULL, controller |-> PROBE_MANAGER,
                  kind |-> "maintain_tradegood_data", pc |-> "top",
                  targets |-> [market |-> NULL, result |-> NULL], tracked |-> FALSE]>>
    /\ cargo = [s \in ExtractionFleet |-> 0]
    /\ marked_drones = {}
    /\ stopped = {}
    /\ trader = trader_start
    /\ nav_rows = [i \in 1..2 |->
                     [symbol |-> <<"P1", "P2">>[i], waypointSymbol |-> <<"A1", "C1">>[i],
                      status |-> "IN_ORBIT", arrival |-> 0]]
    /\ cargo_rows = <<>>
    /\ remote = remote_start

\* Nothing is taken to be handled at the start of a dispatch.
being_handled_none(T, controller) == {}

\* being_handled = [s['market'] for s in fleet.values() if s['market'] is not None]
being_handled(T, controller) ==
    {MarketOf(T, controller, p) :
        p \in {t.ship : t \in {Fleet(T, controller, "update_market")[i] :
                                 i \in 1..Len(Fleet(T, controller, "update_market"))}}}

IntelState ==
    [st |-> [locks |-> locks, requests |-> requests, tasks |-> tasks],
     being_handled |-> being_handled(tasks, PROBE_MANAGER),
     raised |-> FALSE, reported |-> {}, released |-> {}]

\* The exception of a task leaves the loop: the fleet is released and the
\* exception raised again, which ends the coroutine.
IntelAborts(r) ==
    /\ locks' = ReleaseProbes(r.st.locks, Fleet(r.st.tasks, PROBE_MANAGER, "update_market"))
    /\ requests' = r.st.requests
    /\ tasks' = [r.st.tasks EXCEPT ![1].pc = "raised"]
    /\ stopped' = stopped \cup {PROBE_MANAGER}
    /\ last' = [op |-> "intel_abort"]

\* "Release finished ships & report", then the breather at the end of the loop.
IntelReports(r0) ==
    \E r \in {ReportFinished(r0, get_finished_ships(r0.st.tasks, PROBE_MANAGER,
                                                    "update_market"), PROBE_MANAGER)} :
        IF r.raised THEN IntelAborts(r)
        ELSE /\ locks' = r.st.locks
             /\ requests' = r.st.requests
             /\ tasks' = [r.st.tasks EXCEPT ![1].pc = "top"]
             /\ stopped' = stopped
             /\ last' = [op |-> "intel_report",
                         finished |-> {t.ship : t \in
                             {x \in {r0.st.tasks[i] : i \in 1..Len(r0.st.tasks)} :
                                 x.tracked /\ x.kind = "update_market" /\ x.pc = "done"}},
                         failed |-> {t.ship : t \in
                             {x \in {r0.st.tasks[i] : i \in 1..Len(r0.st.tasks)} :
                                 /\ x.tracked /\ x.kind = "update_market"
                                 /\ x.pc = "done" /\ x.targets.result = "False"}},
                         reported |-> r.reported, released |-> r.released]

\* maintain_tradegood_data (refresh_freq = -1) from the top of "while True":
\* the queue is read and the probes dispatched; a queue that was cleared goes on
\* to the report, one that was not waits for the first probe to finish, or for
\* 2 s when the fleet is empty.
maintain_tradegood_data(market_queue) ==
    /\ PROBE_MANAGER \notin stopped
    /\ tasks[1].pc = "top"
    /\ NoNewTask
    /\ \E d \in {dispatch_satellites(IntelState, nav_rows, now, market_queue,
                                     PROBE_MANAGER, BASE_PRIO_MGR_PROBES)} :
          IF d.r.raised THEN IntelAborts(d.r)
          ELSE IF d.cleared THEN IntelReports(d.r)
          ELSE /\ locks' = d.r.st.locks
               /\ requests' = d.r.st.requests
               /\ tasks' = [d.r.st.tasks EXCEPT
                              ![1].pc = IF Len(Fleet(d.r.st.tasks, PROBE_MANAGER,
                                                     "update_market")) > 0
                                        THEN "wait_first_completed" ELSE "sleep"]
               /\ stopped' = stopped
               /\ last' = [op |-> "intel_wait", reported |-> d.r.reported]
    /\ UNCHANGED <<now, cargo, marked_drones, trader>>
    /\ UNCHANGED cache

\* The wait of the controller ends: a probe of the fleet has finished, or the
\* 2 s have passed.
maintain_tradegood_data_wakes ==
    /\ PROBE_MANAGER \notin stopped
    /\ tasks[1].pc \in {"wait_first_completed", "sleep"}
    /\ NoNewTask
    /\ tasks[1].pc = "wait_first_completed" =>
          Len(get_finished_ships(tasks, PROBE_MANAGER, "update_market")) > 0
    /\ IntelReports(IntelState)
    /\ UNCHANGED <<now, cargo, marked_drones, trader>>
    /\ UNCHANGED cache

\* scripts.update_market(ship, waypoint) starts: the ship is blocked.
update_market_start(i) ==
    /\ tasks[i].kind = "update_market"
    /\ tasks[i].pc = "new"
    /\ locks' = set_ship_blocked_status(locks, tasks[i].ship, TRUE).locks
    /\ tasks' = SetPc(tasks, i, "running")
    /\ UNCHANGED <<requests, now, last, cargo, marked_drones, stopped, trader>>
    /\ UNCHANGED cache

\* update_market returns: the block is lifted; with True the probe is at the
\* market.
update_market_returns(i, success) ==
    /\ tasks[i].kind = "update_market"
    /\ tasks[i].pc = "running"
    /\ locks' = set_ship_blocked_status(locks, tasks[i].ship, FALSE).locks
    /\ tasks' = SetPc([tasks EXCEPT ![i].targets.result =
                                        IF success THEN "True" ELSE "False"], i, "done")
    /\ nav_rows' = IF success
                   THEN [k \in 1..Len(nav_rows) |->
                           IF nav_rows[k].symbol = tasks[i].ship
                           THEN [nav_rows[k] EXCEPT
                                   !.waypointSymbol = tasks[i].targets.market]
                           ELSE nav_rows[k]]
                   ELSE nav_rows
    /\ UNCHANGED <<requests, now, last, cargo, marked_drones, stopped, trader,
                   cargo_rows, remote>>

\* update_market raises (a nav read that gave None, a response without data):
\* the task is done, and the ship stays blocked.
update_market_raises(i) ==
    /\ tasks[i].kind = "update_market"
    /\ tasks[i].pc = "running"
    /\ tasks' = SetPc([tasks EXCEPT ![i].targets.result = "raised"], i, "done")
    /\ UNCHANGED <<locks, requests, now, last, cargo, marked_drones, stopped, trader>>
    /\ UNCHANGED cache

NextIntel ==
    \/ \E market_queue \in MarketQueues : maintain_tradegood_data(market_queue)
    \/ maintain_tradegood_data_wakes
    \/ \E i \in 1..Len(tasks) : update_market_start(i)
    \/ \E i \in 1..Len(tasks), success \in BOOLEAN : update_market_returns(i, success)
    \/ \E i \in 1..Len(tasks) : update_market_raises(i)

SpecIntel == InitIntel /\ [][NextIntel]_vars

\* The entries of the fleet dict of the probe manager.
ProbeFleet == Fleet(tasks, PROBE_MANAGER, "update_market")

\* C32: no two fleet entries target the same market, no satellite has two
\* entries or a task that the fleet dict has lost, and so a market is handled by
\* at most one ship of the fleet.
C32_OneProbePerMarket ==
    /\ \A i \in 1..Len(ProbeFleet), j \in 1..Len(ProbeFleet) :
           i # j => /\ ProbeFleet[i].targets.market # ProbeFleet[j].targets.market
                    /\ ProbeFleet[i].ship # ProbeFleet[j].ship
    /\ \A i \in 1..Len(tasks) :
           (tasks[i].kind = "update_market" /\ tasks[i].pc # "done") => tasks[i].tracked

\* Both probes are at work on different markets; the dispatcher found no probe
\* for the rest of its queue and waits for the first of them to end.
C32_Witness ==
    /\ Len(Unfinished(ProbeFleet)) = 2
    /\ tasks[1].pc = "wait_first_completed"
    /\ \E i \in 1..Len(ProbeFleet) : ProbeFleet[i].pc = "running"

\* C29: the failure of the task of one ship (it returns False, or it raises)
\* never ends the coroutine of its controller; the controller reports each
\* failed ship and releases every finished ship, and goes back to the top of
\* its loop.
C29_ShipFailureNeverStopsController ==
    /\ PROBE_MANAGER \notin stopped
    /\ last.op = "intel_report" =>
          /\ last.failed \subseteq last.reported
          /\ last.finished \subseteq last.released

====
